---- MODULE Spec2Model ----
(***************************************************************************)
(* The crawl / extract / retry / merge pipeline of ScraperService          *)
(* (src/src/scraper/scraper.service.ts) and the merge helper of            *)
(* src/src/scraper/utils.ts, as a state machine.                           *)
(*                                                                         *)
(* The two persisted artifacts are the Failed set (failed_list_product.json)*)
(* and the Canonical Store (products.json).  One run of scapeToJsonFile is *)
(* the initial pass (tier 0) followed by four retry tiers; one step of the *)
(* model is one iteration of a per-target loop, or the entry or the return *)
(* of a phase.  The environment chooses, for every target, whether the     *)
(* navigation/extraction throws, which required fields the page yields and *)
(* whether a file operation fails.  puppeteer.launch and browser.newPage   *)
(* are taken to succeed; a failed file write leaves the file as it was.    *)
(***************************************************************************)
EXTENDS Integers, Sequences, FiniteSets, TLC

\* ---------------------------------------------------------------- bounds
MaxLinks == 2    \* longest list of targets the initial pass is given
MaxRuns == 2     \* runs of scapeToJsonFile
MaxFaults == 2   \* file operations that fail, over all runs
MaxStore == 3    \* longest store the merge specification starts from
MaxCalls == 3    \* upserts of the same record in the merge specification
MaxCats == 2     \* categories in the file mergeAllProducts reads
MaxOccur == 3    \* products in that file, over all categories
MaxILinks == 2   \* longest internal-link list of one product
MaxFound == 2    \* most elements one selector yields on a page
MaxRows == 6     \* rows of the repository getResponse ranks
MaxText == 3     \* longest text, in characters, beside the texts given in full
MaxVocab == 2    \* longest vocabulary handed to vectorize
MaxDim == 2      \* most components of a vector handed to cosineSimilarity
MaxParts == 3    \* most texts an href is made of
MaxTriggers == 2 \* most accordion buttons on a page
MaxPass == 3     \* most targets of the pass whose navigation is followed
MaxRequests == 2 \* requests the controller is followed through

TopK == 5        \* getResponse: .slice(0, 5)
NoTimeout == 0   \* page.goto: timeout: 0, the navigation is never cut
NavigationTimeout == 5000   \* retryFailedLinksForAllContent: timeout: 5000

URLs == {"u1", "u2"}
Names == {"n1"}

\* error reasons written to the Failed set
MissingRequiredFields == "Missing required fields"
NavigationError == "navigation error"
FileError == "file error"

VARIABLES
    failedFile,   \* failed_list_product.json : [exists, data]
    productsFile, \* products.json            : [exists, data]
    pc,           \* "idle" | "loop" (in a per-target loop) | "abort" (an error left
                  \* the loop) | "end" (the phase has returned) | "done"
    tier,         \* 0 = startScraping, 1..4 = the retry tiers
    links,        \* the list the running phase iterates over
    idx,          \* position of the next target in links
    open,         \* browser sessions launched and not closed
    run,          \* runs of scapeToJsonFile started so far
    last,         \* what the last loop iteration did
    succ,         \* urls whose record met the success predicate in this tier
    faulty,       \* urls whose iteration in this tier had a failing file operation
    faults,       \* file operations that have failed so far
    ladder,       \* per url: the tier up to which it failed in every tier (-1: none)
    probe         \* the call made, when a helper is exercised alone (SpecMerge,
                  \* SpecFailedSet); unused by the pipeline

vars == <<failedFile, productsFile, pc, tier, links, idx, open, run, last,
          succ, faulty, faults, ladder, probe>>

\* ---------------------------------------------------------------- files
\* a file is missing, or holds the JSON of a list, or holds text JSON.parse
\* throws on.  The pipeline starts without files and a failed write leaves the
\* file as it was, so a corrupt file is one the program finds, never one it
\* writes.
NoFile == [exists |-> FALSE, corrupt |-> FALSE, data |-> <<>>]
FileOf(seq) == [exists |-> TRUE, corrupt |-> FALSE, data |-> seq]
CorruptFile == [exists |-> TRUE, corrupt |-> TRUE, data |-> <<>>]
\* readFile and JSON.parse both succeed
Readable(file) == file.exists /\ ~file.corrupt

UrlsOf(seq) == {seq[i].productUrl : i \in DOMAIN seq}
FailedUrls == UrlsOf(failedFile.data)
StoreUrls == UrlsOf(productsFile.data)

\* JavaScript Map: set() keeps the position of the first insertion of a key
\* and the value of the last one; values() iterates in insertion order.
MapHas(m, url) == \E i \in DOMAIN m : m[i].productUrl = url

MapSet(m, p) ==
    IF MapHas(m, p.productUrl)
    THEN [i \in DOMAIN m |-> IF m[i].productUrl = p.productUrl THEN p ELSE m[i]]
    ELSE Append(m, p)

RECURSIVE MapOf(_)
MapOf(seq) ==
    IF seq = <<>> THEN <<>>
    ELSE MapSet(MapOf(SubSeq(seq, 1, Len(seq) - 1)), seq[Len(seq)])

SelectSeqUrlNot(seq, url) ==
    LET keep(p) == p.productUrl # url IN SelectSeq(seq, keep)

\* a merge that forgets the has() test and appends every new product
C10_mut_mergeAndDeduplicate(existingProducts, newProducts) ==
    MapOf(existingProducts) \o newProducts

\* a merge in which the last writer wins: every new product is set()
C11_mut_mergeAndDeduplicate(existingProducts, newProducts) ==
    MapOf(existingProducts \o newProducts)

\* utils.ts mergeAndDeduplicate
RECURSIVE AddNew(_, _)
AddNew(m, new) ==
    IF new = <<>> THEN m
    ELSE AddNew(IF MapHas(m, Head(new).productUrl) THEN m ELSE MapSet(m, Head(new)),
                Tail(new))

mergeAndDeduplicate(existingProducts, newProducts) ==
    AddNew(MapOf(existingProducts), newProducts)

\* a save that writes nothing to the store
C31_mut_saveProductData(file, productData) == file

\* saveProductData, the file it writes (the write itself succeeding); the inner
\* try/catch around readFile and JSON.parse leaves existingProducts = []
saveProductData(file, productData) ==
    LET existingProducts == IF Readable(file) THEN file.data ELSE <<>>
    IN  FileOf(mergeAndDeduplicate(existingProducts, <<productData>>))

\* a save that creates no file when there is none yet
C3_mut_saveFailedProductLineByLine(file, failedProduct) ==
    IF file.exists /\ ~MapHas(MapOf(file.data), failedProduct.productUrl)
    THEN FileOf(Append(MapOf(file.data), failedProduct))
    ELSE file

\* a save that forgets the has() test and appends every failure
C5_mut_saveFailedProductLineByLine(file, failedProduct) ==
    FileOf(Append(IF file.exists THEN file.data ELSE <<>>, failedProduct))

\* a save that replaces the entry of a url by its latest failure
C32_mut_saveFailedProductLineByLine(file, failedProduct) ==
    FileOf(MapSet(IF file.exists THEN MapOf(file.data) ELSE <<>>, failedProduct))

\* saveFailedProductLineByLine: JSON.parse (line 284) is inside the outer try,
\* whose catch logs and rethrows (line 314)
saveFailedProductLineByLineThrows(file) == file.exists /\ file.corrupt

\* saveFailedProductLineByLine, the file after the call (no fs error)
saveFailedProductLineByLine(file, failedProduct) ==
    LET existingFailedProducts == IF file.exists THEN MapOf(file.data) ELSE <<>>
    IN  IF saveFailedProductLineByLineThrows(file) THEN file
        ELSE IF ~MapHas(existingFailedProducts, failedProduct.productUrl)
        THEN FileOf(Append(existingFailedProducts, failedProduct))
        ELSE file

\* a removal whose filter keeps every entry
C2_mut_removeFailedProduct(file, url) ==
    IF file.exists THEN FileOf(file.data) ELSE file

\* a removal that writes an empty list
C9_mut_removeFailedProduct(file, url) ==
    IF file.exists THEN FileOf(<<>>) ELSE file

\* removeFailedProduct, the file after the call; a missing file makes readFile
\* throw, a corrupt one JSON.parse, which the method catches and logs
removeFailedProduct(file, url) ==
    IF Readable(file) THEN FileOf(SelectSeqUrlNot(file.data, url)) ELSE file

FailedEntry(link, reason) ==
    [productUrl |-> link.productUrl, productName |-> link.productName, error |-> reason]

ProductData(link, schema) ==
    [productUrl |-> link.productUrl, linkText |-> link.productName, schema |-> schema]

\* ---------------------------------------------------------------- inputs
RECURSIVE SeqsUpTo(_, _)
SeqsUpTo(S, n) ==
    IF n = 0 THEN {<<>>}
    ELSE LET shorter == SeqsUpTo(S, n - 1)
         IN  shorter \cup {Append(s, x) : s \in {t \in shorter : Len(t) = n - 1}, x \in S}

Link == [productUrl : URLs, productName : Names]
LinkLists == SeqsUpTo(Link, MaxLinks)

NoLast == [outcome |-> "none", io |-> FALSE]
NoProbe == [op |-> "none"]

\* the two shapes of record the tiers write: the fields extractProductData
\* reads with a schema, or {productName, productUrl, content, linkText}
Structured == "fields"
ContentOnly == "content"

\* a processLinks that removes the url whatever isRetry is
C4_mut_removesOnSuccess(t) == TRUE

\* processLinks removes the url from the Failed set only in retry mode; the
\* two body-only tiers always do
removesOnSuccess(t) == t > 0

\* ---------------------------------------------------------------- the pipeline
Init ==
    /\ failedFile = NoFile
    /\ productsFile = NoFile
    /\ pc = "idle"
    /\ tier = 0
    /\ links = <<>>
    /\ idx = 1
    /\ open = 0
    /\ run = 0
    /\ last = NoLast
    /\ succ = {}
    /\ faulty = {}
    /\ faults = 0
    /\ ladder = [u \in URLs |-> -1]
    /\ probe = NoProbe

\* startScraping up to the call of processLinks: launch, open the list page,
\* read the links.  A throw of the list page leaves nothing to iterate over.
startScraping ==
    /\ pc = "idle"
    /\ run < MaxRuns
    /\ \E listOk \in BOOLEAN, ls \in LinkLists :
          links' = IF listOk THEN ls ELSE <<>>
    /\ pc' = "loop"
    /\ tier' = 0
    /\ idx' = 1
    /\ open' = open + 1
    /\ run' = run + 1
    /\ last' = NoLast
    /\ succ' = {}
    /\ faulty' = {}
    /\ UNCHANGED <<failedFile, productsFile, faults, ladder, probe>>

\* One iteration of a per-target loop: the try/catch around goto, extraction,
\* the required-fields test, saveProductData and removeFailedProduct.
\*   threw      goto or the extraction threw
\*   fieldsOk   the record satisfies the tier's success predicate
\*   ioFailed   the saveFailedProductLineByLine of the incomplete branch threw
\*   ioProduct  saveProductData threw
\*   ioRemove   removeFailedProduct hit a file error (caught inside it)
\*   ioCatch    the saveFailedProductLineByLine of the catch block threw
tryTarget(schema, threw, fieldsOk, ioFailed, ioProduct, ioRemove, ioCatch) ==
    LET link == links[idx]
        url == link.productUrl
        incomplete == ~threw /\ ~fieldsOk
        complete == ~threw /\ fieldsOk
        caught == threw \/ (incomplete /\ ioFailed) \/ (complete /\ ioProduct)
        reason == IF threw THEN NavigationError ELSE FileError
        raised == caught /\ ioCatch
        removing == complete /\ ~ioProduct /\ removesOnSuccess(tier)
        failing == Cardinality({f \in {<<1, ioFailed>>, <<2, ioProduct>>, <<3, ioRemove>>,
                                        <<4, ioCatch>>} : f[2]})
    IN  \* a file operation can fail only if the iteration performs it
        /\ ioFailed => incomplete
        /\ ioProduct => complete
        /\ ioRemove => removing
        /\ ioCatch => caught
        /\ faults + failing <= MaxFaults
        /\ faults' = faults + failing
        /\ failedFile' =
              IF caught
              THEN IF ioCatch THEN failedFile
                   ELSE saveFailedProductLineByLine(failedFile, FailedEntry(link, reason))
              ELSE IF incomplete
              THEN saveFailedProductLineByLine(failedFile,
                                               FailedEntry(link, MissingRequiredFields))
              ELSE IF removing /\ ~ioRemove
              THEN removeFailedProduct(failedFile, url)
              ELSE failedFile
        /\ productsFile' =
              IF complete /\ ~ioProduct
              THEN saveProductData(productsFile, ProductData(link, schema))
              ELSE productsFile
        /\ pc' = IF raised THEN "abort" ELSE "loop"
        /\ idx' = idx + 1
        /\ last' = [outcome |-> IF threw THEN "threw"
                                ELSE IF incomplete THEN "incomplete" ELSE "complete",
                    io |-> failing > 0]
        /\ succ' = IF complete THEN succ \cup {url} ELSE succ
        /\ faulty' = IF failing > 0 THEN faulty \cup {url} ELSE faulty
        /\ ladder' = [ladder EXCEPT ![url] =
                          IF complete /\ ~ioProduct
                          THEN IF tier > 0 THEN -1 ELSE @
                          ELSE IF @ = tier - 1 THEN tier ELSE @]
        /\ UNCHANGED <<tier, links, open, run, probe>>

\* the success predicate of processLinks: title and preTitle both non-empty
requiredFieldsPresent(hasTitle, hasPreTitle) == hasTitle /\ hasPreTitle

processLinks ==
    /\ pc = "loop"
    /\ tier \in 0..2
    /\ idx <= Len(links)
    /\ \E threw, hasTitle, hasPreTitle, ioFailed, ioProduct, ioRemove, ioCatch \in BOOLEAN :
          /\ threw => (hasTitle /\ hasPreTitle)   \* no record to look at
          /\ tryTarget(Structured, threw,
                       requiredFieldsPresent(hasTitle, hasPreTitle),
                       ioFailed, ioProduct, ioRemove, ioCatch)

retryFailedLinksForAllContentLoop ==
    /\ pc = "loop"
    /\ tier = 3
    /\ idx <= Len(links)
    /\ \E threw, hasContent, ioFailed, ioProduct, ioRemove, ioCatch \in BOOLEAN :
          /\ threw => hasContent   \* no content to look at
          /\ tryTarget(ContentOnly, threw, hasContent,
                       ioFailed, ioProduct, ioRemove, ioCatch)

retryFailedLinksForBodyLoop ==
    /\ pc = "loop"
    /\ tier = 4
    /\ idx <= Len(links)
    /\ \E threw, hasContent, ioFailed, ioProduct, ioRemove, ioCatch \in BOOLEAN :
          /\ threw => hasContent   \* no content to look at
          /\ tryTarget(ContentOnly, threw, hasContent,
                       ioFailed, ioProduct, ioRemove, ioCatch)

\* whether the phase closes its browser when it returns: startScraping in a
\* finally block, retryFailedLinks and retryFailedLinksForCompactText after
\* processLinks returned normally, the two body-only tiers never
closesBrowser(t, aborted) ==
    CASE t = 0 -> TRUE
      [] t \in {1, 2} -> ~aborted
      [] OTHER -> FALSE

\* the running phase returns: its loop is over, or an error left the loop
phaseReturn ==
    /\ pc = "abort" \/ (pc = "loop" /\ idx > Len(links))
    /\ pc' = "end"
    /\ open' = IF closesBrowser(tier, pc = "abort") THEN open - 1 ELSE open
    /\ UNCHANGED <<failedFile, productsFile, tier, links, idx, run, last, succ,
                   faulty, faults, ladder, probe>>

\* an entry that launches the browser before it reads the Failed set
C33_mut_retryBegin(t) ==
    /\ pc = "end"
    /\ tier = t - 1
    /\ tier' = t
    /\ idx' = 1
    /\ last' = NoLast
    /\ succ' = {}
    /\ faulty' = {}
    /\ open' = open + 1
    /\ IF ~Readable(failedFile) \/ Len(failedFile.data) = 0
       THEN /\ pc' = "end"
            /\ links' = <<>>
       ELSE /\ pc' = "loop"
            /\ links' = failedFile.data
    /\ UNCHANGED <<failedFile, productsFile, run, faults, ladder, probe>>

\* entry of a retry tier: read the Failed set; a missing file (readFile
\* throws), a corrupt one (JSON.parse throws) or an empty list returns at once,
\* otherwise a browser is launched and the list read here is the one the tier
\* iterates over
retryBegin(t) ==
    /\ pc = "end"
    /\ tier = t - 1
    /\ tier' = t
    /\ idx' = 1
    /\ last' = NoLast
    /\ succ' = {}
    /\ faulty' = {}
    /\ IF ~Readable(failedFile) \/ Len(failedFile.data) = 0
       THEN /\ pc' = "end"
            /\ links' = <<>>
            /\ open' = open
       ELSE /\ pc' = "loop"
            /\ links' = failedFile.data
            /\ open' = open + 1
    /\ UNCHANGED <<failedFile, productsFile, run, faults, ladder, probe>>

retryFailedLinks == retryBegin(1)
retryFailedLinksForCompactText == retryBegin(2)
retryFailedLinksForAllContent == retryBegin(3)
retryFailedLinksForBody == retryBegin(4)

\* scapeToJsonFile returns after the last tier
scapeToJsonFileReturn ==
    /\ pc = "end"
    /\ tier = 4
    /\ pc' = "done"
    /\ UNCHANGED <<failedFile, productsFile, tier, links, idx, open, run, last, succ,
                   faulty, faults, ladder, probe>>

\* the process is restarted: the two files persist, nothing else does
restart ==
    /\ pc = "done"
    /\ run < MaxRuns
    /\ pc' = "idle"
    /\ tier' = 0
    /\ links' = <<>>
    /\ idx' = 1
    /\ open' = 0
    /\ last' = NoLast
    /\ succ' = {}
    /\ faulty' = {}
    /\ ladder' = [u \in URLs |-> IF ladder[u] = 4 THEN 4 ELSE -1]
    /\ UNCHANGED <<failedFile, productsFile, run, faults, probe>>

Next ==
    \/ startScraping
    \/ processLinks
    \/ retryFailedLinks
    \/ retryFailedLinksForCompactText
    \/ retryFailedLinksForAllContent
    \/ retryFailedLinksForAllContentLoop
    \/ retryFailedLinksForBody
    \/ retryFailedLinksForBodyLoop
    \/ phaseReturn
    \/ scapeToJsonFileReturn
    \/ restart

Spec == Init /\ [][Next]_vars

\* ---------------------------------------------------------------- the helpers alone
\* everything but the two files and the probe, at rest
Idle ==
    /\ pc = "idle"
    /\ tier = 0
    /\ links = <<>>
    /\ idx = 1
    /\ open = 0
    /\ run = 0
    /\ last = NoLast
    /\ succ = {}
    /\ faulty = {}
    /\ faults = 0
    /\ ladder = [u \in URLs |-> -1]

idleVars == <<pc, tier, links, idx, open, run, last, succ, faulty, faults, ladder>>

Product == [productUrl : URLs, linkText : Names, schema : {Structured, ContentOnly}]
Reasons == {MissingRequiredFields, NavigationError, FileError}
\* the failures a caller may report: the same url may come with another name
Failure == [productUrl : URLs, productName : Names \cup {"n2"}, error : Reasons]

\* saveProductData called with the same record again and again, from any store:
\* no file, or any list of records, repeated urls included
InitMerge ==
    /\ Idle
    /\ failedFile = NoFile
    /\ productsFile \in {NoFile} \cup {FileOf(st) : st \in SeqsUpTo(Product, MaxStore)}
    /\ probe = [op |-> "none", calls |-> 0]

upsert ==
    /\ probe.op = "none"
    /\ \E r \in Product :
          /\ productsFile' = saveProductData(productsFile, r)
          /\ probe' = [op |-> "upsert", rec |-> r, before |-> productsFile,
                       once |-> productsFile', calls |-> 1]
    /\ UNCHANGED <<failedFile, idleVars>>

upsertAgain ==
    /\ probe.op = "upsert"
    /\ probe.calls < MaxCalls
    /\ productsFile' = saveProductData(productsFile, probe.rec)
    /\ probe' = [probe EXCEPT !.calls = @ + 1]
    /\ UNCHANGED <<failedFile, idleVars>>

NextMerge == upsert \/ upsertAgain

SpecMerge == InitMerge /\ [][NextMerge]_vars

\* the same calls from a store the program can have written: no file, or a list
\* with one record per url (saveProductData never writes a url twice)
InitStore ==
    /\ InitMerge
    /\ \A i, j \in DOMAIN productsFile.data :
          productsFile.data[i].productUrl = productsFile.data[j].productUrl => i = j

SpecStore == InitStore /\ [][NextMerge]_vars

\* saveFailedProductLineByLine and removeFailedProduct called in any order by a
\* single writer, from a missing or an empty Failed-set file
InitFailedSet ==
    /\ Idle
    /\ productsFile = NoFile
    /\ failedFile \in {NoFile, FileOf(<<>>)}
    /\ probe = [op |-> "none", url |-> "none", had |-> FALSE]

callSaveFailed ==
    /\ \E f \in Failure :
          /\ failedFile' = saveFailedProductLineByLine(failedFile, f)
          /\ probe' = [op |-> "save", url |-> f.productUrl,
                       had |-> f.productUrl \in FailedUrls]
    /\ UNCHANGED <<productsFile, idleVars>>

callRemoveFailed ==
    /\ \E u \in URLs :
          /\ failedFile' = removeFailedProduct(failedFile, u)
          /\ probe' = [op |-> "remove", url |-> u, had |-> u \in FailedUrls]
    /\ UNCHANGED <<productsFile, idleVars>>

NextFailedSet == callSaveFailed \/ callRemoveFailed

SpecFailedSet == InitFailedSet /\ [][NextFailedSet]_vars

\* ---------------------------------------------------------------- corrupt files
\* the four loaders of the two files, each called once on a file that is
\* missing, corrupt, or holds a short list; a retry tier is entered as it is
\* after the phase before it has returned
InitCorrupt ==
    /\ pc = "end"
    /\ tier \in 0..3
    /\ links = <<>>
    /\ idx = 1
    /\ open = 0
    /\ run = 1
    /\ last = NoLast
    /\ succ = {}
    /\ faulty = {}
    /\ faults = 0
    /\ ladder = [u \in URLs |-> -1]
    /\ failedFile \in {NoFile, CorruptFile} \cup {FileOf(q) : q \in SeqsUpTo(Failure, 1)}
    /\ productsFile \in {NoFile, CorruptFile} \cup {FileOf(st) : st \in SeqsUpTo(Product, 1)}
    /\ probe = NoProbe

\* probe.asEmpty is the file the same call leaves when the file holds []
loadInSaveFailed ==
    /\ probe.op = "none"
    /\ \E f \in Failure :
          /\ failedFile' = saveFailedProductLineByLine(failedFile, f)
          /\ probe' = [op |-> "saveFailed", before |-> failedFile,
                       raised |-> saveFailedProductLineByLineThrows(failedFile),
                       asEmpty |-> saveFailedProductLineByLine(FileOf(<<>>), f)]
    /\ UNCHANGED <<productsFile, idleVars>>

loadInRemoveFailed ==
    /\ probe.op = "none"
    /\ \E u \in URLs :
          /\ failedFile' = removeFailedProduct(failedFile, u)
          /\ probe' = [op |-> "removeFailed", before |-> failedFile, raised |-> FALSE,
                       asEmpty |-> removeFailedProduct(FileOf(<<>>), u)]
    /\ UNCHANGED <<productsFile, idleVars>>

loadInSaveProductData ==
    /\ probe.op = "none"
    /\ \E r \in Product :
          /\ productsFile' = saveProductData(productsFile, r)
          /\ probe' = [op |-> "saveProduct", before |-> productsFile, raised |-> FALSE,
                       asEmpty |-> saveProductData(FileOf(<<>>), r)]
    /\ UNCHANGED <<failedFile, idleVars>>

NextCorrupt ==
    \/ loadInSaveFailed
    \/ loadInRemoveFailed
    \/ loadInSaveProductData
    \/ retryFailedLinks
    \/ retryFailedLinksForCompactText
    \/ retryFailedLinksForAllContent
    \/ retryFailedLinksForBody

SpecCorrupt == InitCorrupt /\ [][NextCorrupt]_vars

\* ---------------------------------------------------------------- mergeAllProducts
\* utils.ts mergeAllProducts: the category file is read and parsed, the products
\* of every category are folded into mergedProducts (an object keyed by the
\* product link), and the values are written.  One step is one turn of one of
\* the two forEach loops; the file is revealed category by category.
\* a category of the file: its categoryName and its link
Categories == {[categoryName |-> "c1", link |-> "k1"], [categoryName |-> "c2", link |-> "k2"]}
NoCategory == [categoryName |-> "none", link |-> "none"]
ProductLinks == {"p1", "p2"}
LinkUrls == {"l1", "l2"}
LinkNames == {"doc"}

InternalLink == [name : LinkNames, link : LinkUrls]
CategoryProduct == [link : ProductLinks, internalLinks : SeqsUpTo(InternalLink, MaxILinks)]

\* JSON.parse allocates one object per element: the k-th internal link of the
\* n-th product of the file is an object of its own, whatever its content
Parsed(product, n) ==
    [link |-> product.link,
     internalLinks |-> [k \in DOMAIN product.internalLinks |->
                          [ref |-> <<n, k>>,
                           name |-> product.internalLinks[k].name,
                           link |-> product.internalLinks[k].link]]]

\* [...new Set(array)] : a Set of objects holds an object once, the first time
\* it is added; two objects are the same when they are the same reference
RECURSIVE SetOfObjects(_)
SetOfObjects(array) ==
    IF array = <<>> THEN <<>>
    ELSE LET front == SetOfObjects(SubSeq(array, 1, Len(array) - 1))
             x == array[Len(array)]
         IN  IF \E i \in DOMAIN front : front[i].ref = x.ref THEN front
             ELSE Append(front, x)

HasKey(obj, key) == \E i \in DOMAIN obj : obj[i].link = key

\* a merge that adds a product at its first occurrence, with or without
\* internal links
C36_mut_mergeProduct(mergedProducts, product, category) ==
    IF ~HasKey(mergedProducts, product.link)
    THEN Append(mergedProducts,
                [link |-> product.link, internalLinks |-> product.internalLinks,
                 categoryName |-> category.categoryName, categoryLink |-> category.link])
    ELSE [i \in DOMAIN mergedProducts |->
            IF mergedProducts[i].link = product.link
            THEN [mergedProducts[i] EXCEPT
                    !.internalLinks = SetOfObjects(@ \o product.internalLinks)]
            ELSE mergedProducts[i]]

\* the body of category.products.forEach, category being the element of
\* data.forEach it runs in (categoryName = category.categoryName, categoryLink =
\* category.link)
mergeProduct(mergedProducts, product, category) ==
    IF ~HasKey(mergedProducts, product.link)
    THEN IF Len(product.internalLinks) > 0
         THEN Append(mergedProducts,
                     [link |-> product.link, internalLinks |-> product.internalLinks,
                      categoryName |-> category.categoryName,
                      categoryLink |-> category.link])
         ELSE mergedProducts
    ELSE [i \in DOMAIN mergedProducts |->
            IF mergedProducts[i].link = product.link
            THEN [mergedProducts[i] EXCEPT
                    !.internalLinks = SetOfObjects(@ \o product.internalLinks)]
            ELSE mergedProducts[i]]

InitMergeAll ==
    /\ Idle
    /\ failedFile = NoFile
    /\ productsFile = NoFile
    /\ probe = [op |-> "mergeAll", at |-> "categories", category |-> NoCategory,
                cats |-> 0, n |-> 0, inCategory |-> 0, mergedProducts |-> <<>>,
                lists |-> [p \in ProductLinks |-> <<>>]]

\* data.forEach: the next category; one without products is skipped
forEachCategory ==
    /\ probe.op = "mergeAll"
    /\ probe.at = "categories"
    /\ probe.cats < MaxCats
    /\ \E c \in Categories, hasProducts \in BOOLEAN :
          probe' = [probe EXCEPT !.cats = @ + 1,
                                 !.category = c,
                                 !.inCategory = 0,
                                 !.at = IF hasProducts THEN "products" ELSE "categories"]
    /\ UNCHANGED <<failedFile, productsFile, idleVars>>

\* category.products.forEach: the next product of the category, one of products
forEachProductOf(products) ==
    /\ probe.op = "mergeAll"
    /\ probe.at = "products"
    /\ probe.n < MaxOccur
    /\ \E product \in products :
          probe' = [probe EXCEPT
                      !.n = @ + 1,
                      !.inCategory = @ + 1,
                      !.mergedProducts =
                          mergeProduct(@, Parsed(product, probe.n + 1), probe.category),
                      !.lists[product.link] =
                          Append(@, [cat |-> probe.cats, category |-> probe.category,
                                     internalLinks |-> product.internalLinks])]
    /\ UNCHANGED <<failedFile, productsFile, idleVars>>

\* probe.lists[p] keeps, for every occurrence of product p, the number of its
\* category, the category and its internal-link list
\* the products of the category are exhausted (there was at least one)
endOfCategory ==
    /\ probe.op = "mergeAll"
    /\ probe.at = "products"
    /\ probe.inCategory > 0
    /\ probe' = [probe EXCEPT !.at = "categories"]
    /\ UNCHANGED <<failedFile, productsFile, idleVars>>

\* the categories are exhausted: Object.values(mergedProducts) is written
writeMerged ==
    /\ probe.op = "mergeAll"
    /\ probe.at = "categories"
    /\ probe' = [probe EXCEPT !.at = "written"]
    /\ UNCHANGED <<failedFile, productsFile, idleVars>>

forEachProduct == forEachProductOf(CategoryProduct)

NextMergeAll == forEachCategory \/ forEachProduct \/ endOfCategory \/ writeMerged

SpecMergeAll == InitMergeAll /\ [][NextMergeAll]_vars

\* the same loops over products that have no internal link or a single one:
\* which products get an entry, and under which category, depends on a list
\* being empty or not
FewLinks == {<<>>} \cup {<<il>> : il \in InternalLink}
forEachProductFewLinks ==
    forEachProductOf([link : ProductLinks, internalLinks : FewLinks])

NextMergeEntries ==
    forEachCategory \/ forEachProductFewLinks \/ endOfCategory \/ writeMerged

SpecMergeEntries == InitMergeAll /\ [][NextMergeEntries]_vars

\* ---------------------------------------------------------------- selector fallback
\* scrapeData tries the product selectors on a category page, and
\* scrapeProductsForCategory the internal-link selectors on a product page.
\* One step is one call of scrapeProductsForCategory or of
\* scrapeInternalLinksForProduct with one selector: the page yields a list, or
\* the call throws inside and returns [].
ProductSelectors ==
    <<"#prodByAlpha li a", "section ul li a", ".cat-container ul li a",
      ".tech-container ul li a">>
InternalLinkSelectors ==
    <<"#actual-document-listings ul li a", ".dmc-list-dynamic ul li a">>
SelectorsOf(chain) ==
    IF chain = "products" THEN ProductSelectors ELSE InternalLinkSelectors

Elements == {"e1", "e2"}
Yields == SeqsUpTo(Elements, MaxFound)

\* a chain that goes on to the next selector whatever the last one returned
C13_mut_triesNext(chain, k, found) == k < Len(SelectorsOf(chain))

\* the tests `if (!products.length)` and `if (!internalLinks.length)` that
\* decide, after selector k returned found, whether selector k + 1 is run: the
\* second product selector is nested in the test after the first, the third
\* and the fourth in those after the second
triesNext(chain, k, found) ==
    /\ k < Len(SelectorsOf(chain))
    /\ Len(found) = 0

InitFallback ==
    /\ Idle
    /\ failedFile = NoFile
    /\ productsFile = NoFile
    /\ \E chain \in {"products", "internalLinks"} :
          probe = [op |-> "fallback", chain |-> chain, at |-> "try",
                   tried |-> <<>>, result |-> <<>>]

\* the call with the next selector, and the test that follows it
scrapeWithSelector ==
    /\ probe.op = "fallback"
    /\ probe.at = "try"
    /\ \E threw \in BOOLEAN, yield \in Yields :
          LET k == Len(probe.tried) + 1
              found == IF threw THEN <<>> ELSE yield
          IN  /\ threw => yield = <<>>
              /\ probe' = [probe EXCEPT
                    !.tried = Append(@, [selector |-> SelectorsOf(probe.chain)[k],
                                         threw |-> threw, found |-> found]),
                    !.result = found,
                    !.at = IF triesNext(probe.chain, k, found) THEN "try" ELSE "done"]
    /\ UNCHANGED <<failedFile, productsFile, idleVars>>

\* the next category, or the next product: the chain starts again
nextPage ==
    /\ probe.op = "fallback"
    /\ probe.at = "done"
    /\ probe' = [probe EXCEPT !.at = "try", !.tried = <<>>, !.result = <<>>]
    /\ UNCHANGED <<failedFile, productsFile, idleVars>>

NextFallback == scrapeWithSelector \/ nextPage

SpecFallback == InitFallback /\ [][NextFallback]_vars

\* ---------------------------------------------------------------- extraction
\* constant.ts: the three shipped schemas.  A key with a string is a scalar
\* field; the other keys are the structured sections.
initialScraperConfig ==
    [preTitle |-> ".cds-c-hero .cmp-teaser__pretitle",
     title |-> ".cds-c-hero .cmp-teaser__title",
     subtitle |-> ".cds-c-hero .cmp-teaser__description p",
     description |-> ".cds-c-detailblock__description p",
     benefits |->
        [container |-> ".cds-c-detailblock__benefits-wrap .cds-c-cards",
         fields |-> [title |-> ".cds-c-cards__wrapper .cmp-teaser__title",
                     description |-> ".cds-c-cards__wrapper .cmp-teaser__description p"]],
     dataModal |->
        [modal |-> ".cmp-accordion__desktop-button-wrapper .cmp-accordion__desktop-button",
         fields |-> [title |-> ".cmp-accordion__item .cmp-teaser__title",
                     content |-> ".cmp-accordion__item .cmp-teaser__description"]],
     overview |->
        [container |-> ".cds-c-detailblock__benefits-wrap .cmp-accordion",
         fields |-> [title |-> ".cmp-accordion__item .cmp-accordion__title",
                     content |-> ".cmp-accordion__item .cmp-text p"]],
     productList |->
        [container |-> ".cds-model-comparison-carousel__slide-wrapper",
         slide |-> ".cds-c-model-comparison-carousel__slide",
         fields |-> [name |-> ".cds-c-product-detail-card__model-name",
                     description |-> ".cds-c-product-detail-card__model-description ul"]],
     integrations |->
        [container |-> "#container-integrations .cds-c-cards",
         fields |-> [title |-> ".cmp-teaser__title",
                     description |-> ".cmp-teaser__description p"]]]

retryScraperConfig ==
    [preTitle |-> "#fw-pagetitle",
     title |-> ".info-content h2",
     subtitle |-> ".compact .large compact",
     description |-> ".info-content .info-description",
     benefits |->
        [container |-> "#benefits",
         fields |-> [title |-> ".rte-txt h3", description |-> ".rte-txt p"]],
     dataModal |->
        [modal |-> "#models .rte-txt",
         fields |-> [title |-> "h3", content |-> "li"]],
     features |->
        [container |-> "#features .dm0",
         fields |-> [title |-> ".sl-title", description |-> "p"]],
     resources |->
        [container |-> "#resources .dmc-list-item",
         fields |-> [title |-> "li a", url |-> "li a[href]"]]]

retryForCompactScraperConfig ==
    [preTitle |-> "#fw-pagetitle",
     title |-> "#fw-pagetitle",
     subtitle |-> ".info-description",
     description |-> ".dmc-text",
     benefits |->
        [container |-> "#benefits",
         fields |-> [title |-> "", description |-> "p"]],
     dataModal |->
        [modal |-> "#models",
         fields |-> [title |-> "h3", content |-> "li"]],
     features |->
        [container |-> "#features",
         fields |-> [title |-> "h3", description |-> "p"]],
     resources |->
        [container |-> "#resources",
         fields |-> [title |-> "li a", url |-> "li a[href]"]],
     listing |->
        [container |-> ".combination-listing",
         fields |-> [title |-> ".contentLink", url |-> ".contentLink[href]"]],
     otherDescription |-> ".mlb-pilot p",
     tableContent |-> ".table-columns p"]

Schemas == {initialScraperConfig, retryScraperConfig, retryForCompactScraperConfig}

\* what a page is for the extraction: the sections whose container (slide,
\* modal) selector matches an element of the document, and the aria-controls
\* attribute of the accordion buttons ("null" stands for no attribute at all:
\* the template string `#${null}` is "#null")
Sections ==
    {"benefits", "dataModal", "overview", "productList", "features", "resources",
     "integrations", "listing"}
AriaControls == {"panel-1", "null", ""}
Pages == [matches : SUBSET Sections, ariaControls : AriaControls]

\* querySelector and querySelectorAll throw a SyntaxError on a string that is
\* no selector: of the strings met here, the empty one and a lone "#"
InvalidSelector(selector) == selector \in {"", "#"}

Configured(config, section) == section \in DOMAIN config
Matched(page, config, section) ==
    Configured(config, section) /\ section \in page.matches

\* the callback of page.evaluate has no try/catch of its own, except inside
\* extractText (the scalar fields, and the fields of benefits when not in
\* retry mode): a query that throws rejects page.evaluate
evaluateThrows(page, config, isRetry) ==
    \/ /\ Configured(config, "benefits")
       /\ \/ InvalidSelector(config.benefits.container)
          \/ /\ isRetry
             /\ Matched(page, config, "benefits")
             /\ \/ InvalidSelector(config.benefits.fields.title)
                \/ InvalidSelector(config.benefits.fields.description)
    \/ /\ Configured(config, "dataModal")
       /\ \/ InvalidSelector(config.dataModal.modal)
          \/ /\ isRetry
             /\ Matched(page, config, "dataModal")
             /\ \/ InvalidSelector(config.dataModal.fields.title)
                \/ InvalidSelector(config.dataModal.fields.content)
          \/ /\ ~isRetry
             /\ Matched(page, config, "dataModal")
             /\ \/ InvalidSelector("#" \o page.ariaControls)
                \/ /\ page.ariaControls = "panel-1"
                   /\ InvalidSelector(config.dataModal.fields.content)
    \/ /\ Configured(config, "overview")
       /\ \/ InvalidSelector(config.overview.container)
          \/ /\ Matched(page, config, "overview")
             /\ \/ InvalidSelector(config.overview.fields.title)
                \/ InvalidSelector(config.overview.fields.content)
    \/ /\ Configured(config, "productList")
       /\ \/ InvalidSelector(config.productList.slide)
          \/ /\ Matched(page, config, "productList")
             /\ \/ InvalidSelector(config.productList.fields.name)
                \/ InvalidSelector(config.productList.fields.description)
    \/ /\ Configured(config, "features")
       /\ \/ InvalidSelector(config.features.container)
          \/ /\ Matched(page, config, "features")
             /\ \/ InvalidSelector(config.features.fields.title)
                \/ InvalidSelector(config.features.fields.description)
    \/ /\ Configured(config, "resources")
       /\ \/ InvalidSelector(config.resources.container)
          \/ /\ Matched(page, config, "resources")
             /\ \/ InvalidSelector(config.resources.fields.title)
                \/ InvalidSelector(config.resources.fields.url)
    \/ /\ Configured(config, "integrations")
       /\ \/ InvalidSelector(config.integrations.container)
          \/ /\ Matched(page, config, "integrations")
             /\ \/ InvalidSelector(config.integrations.fields.title)
                \/ InvalidSelector(config.integrations.fields.description)
    \/ /\ Configured(config, "listing")
       /\ \/ InvalidSelector(config.listing.container)
          \/ /\ Matched(page, config, "listing")
             /\ InvalidSelector(config.listing.fields.url)

\* utils.ts extractProductData: the record, or the error of page.evaluate
extractProductData(page, url, text, config, isRetry) ==
    IF evaluateThrows(page, config, isRetry)
    THEN [threw |-> TRUE]
    ELSE [threw |-> FALSE, productUrl |-> url, linkText |-> text]

InitExtract ==
    /\ Idle
    /\ failedFile = NoFile
    /\ productsFile = NoFile
    /\ probe = NoProbe

callExtractProductData ==
    /\ probe.op = "none"
    /\ \E page \in Pages, link \in Link, config \in Schemas, isRetry \in BOOLEAN :
          probe' = [op |-> "extract", page |-> page, link |-> link,
                    config |-> config, isRetry |-> isRetry,
                    productData |-> extractProductData(page, link.productUrl,
                                        link.productName, config, isRetry)]
    /\ UNCHANGED <<failedFile, productsFile, idleVars>>

NextExtract == callExtractProductData

SpecExtract == InitExtract /\ [][NextExtract]_vars

\* ---------------------------------------------------------------- bag of words
\* utils.ts tokenize, buildVocabulary, vectorize.  A text is the sequence of
\* its characters, a token too.
LowerCaseLetters ==
    {"a", "b", "c", "d", "e", "f", "g", "h", "i", "j", "k", "l", "m",
     "n", "o", "p", "q", "r", "s", "t", "u", "v", "w", "x", "y", "z"}
Digits == {"0", "1", "2", "3", "4", "5", "6", "7", "8", "9"}
Whitespace == {" ", "\t"}
\* the upper-case letters of the texts below, with their lower case
UpperToLower == [c \in {"B", "R"} |-> IF c = "B" THEN "b" ELSE "r"]

\* text.toLowerCase()
toLowerCase(text) ==
    [i \in DOMAIN text |->
        IF text[i] \in DOMAIN UpperToLower THEN UpperToLower[text[i]] ELSE text[i]]

\* .replace(/[^a-z0-9\s]/g, '')
KeptCharacter(c) == c \in LowerCaseLetters \cup Digits \cup Whitespace
replaceOthers(text) == SelectSeq(text, KeptCharacter)

\* .split(/\s+/): the pieces between the runs of whitespace; a text that
\* starts or ends with whitespace has an empty first or last piece, and the
\* empty text has one empty piece
RECURSIVE split(_)
split(text) ==
    IF text = <<>> THEN << <<>> >>
    ELSE LET n == Len(text)
             pieces == split(SubSeq(text, 1, n - 1))
         IN  IF text[n] \in Whitespace
             THEN IF n > 1 /\ text[n - 1] \in Whitespace
                  THEN pieces
                  ELSE Append(pieces, <<>>)
             ELSE [pieces EXCEPT ![Len(pieces)] = Append(@, text[n])]

\* .filter(Boolean): the empty string is falsy
Truthy(piece) == piece # <<>>
filterBoolean(pieces) == SelectSeq(pieces, Truthy)

\* a tokenize that keeps the empty pieces
C19_mut_tokenize(text) == split(replaceOthers(toLowerCase(text)))

tokenize(text) == filterBoolean(split(replaceOthers(toLowerCase(text))))

\* a Set keeps a value once, at the place of its first add()
RECURSIVE SetOfWords(_)
SetOfWords(words) ==
    IF words = <<>> THEN <<>>
    ELSE LET front == SetOfWords(SubSeq(words, 1, Len(words) - 1))
             w == words[Len(words)]
         IN  IF \E i \in DOMAIN front : front[i] = w THEN front ELSE Append(front, w)

RECURSIVE TokensOfAll(_)
TokensOfAll(texts) ==
    IF texts = <<>> THEN <<>>
    ELSE TokensOfAll(SubSeq(texts, 1, Len(texts) - 1)) \o tokenize(texts[Len(texts)])

buildVocabulary(texts) == SetOfWords(TokensOfAll(texts))

\* wordCounts is a plain object ({}), so a key that is not its own is looked up
\* in Object.prototype; of its keys only "constructor" can be a token
ObjectPrototypeKeys ==
    {<<"c", "o", "n", "s", "t", "r", "u", "c", "t", "o", "r">>,
     <<"t", "o", "S", "t", "r", "i", "n", "g">>,
     <<"v", "a", "l", "u", "e", "O", "f">>}
InheritedFunction == [type |-> "function", n |-> 0]
Number(n) == [type |-> "number", n |-> n]

\* counts[word] || 0, the own keys of counts being held as a sequence of
\* {key, value} pairs: an own value (never falsy here), else the inherited
\* one, else undefined || 0
OwnKeys(counts) == {counts[i].key : i \in DOMAIN counts}
Lookup(counts, word) ==
    IF word \in OwnKeys(counts)
    THEN counts[CHOOSE i \in DOMAIN counts : counts[i].key = word].value
    ELSE IF word \in ObjectPrototypeKeys THEN InheritedFunction
    ELSE Number(0)

\* (counts[word] || 0) + 1 : a number plus one, or, for a function or a string,
\* the string with "1" appended (n counts the characters appended)
PlusOne(value) ==
    IF value.type = "number" THEN Number(value.n + 1)
    ELSE [type |-> "string", n |-> value.n + 1]

RECURSIVE CountWords(_)
CountWords(tokens) ==
    IF tokens = <<>> THEN <<>>
    ELSE LET counts == CountWords(SubSeq(tokens, 1, Len(tokens) - 1))
             word == tokens[Len(tokens)]
             value == PlusOne(Lookup(counts, word))
         IN  IF word \in OwnKeys(counts)
             THEN [i \in DOMAIN counts |->
                     IF counts[i].key = word THEN [key |-> word, value |-> value]
                     ELSE counts[i]]
             ELSE Append(counts, [key |-> word, value |-> value])

\* vocabulary.map((word) => wordCounts[word] || 0)
vectorize(text, vocabulary) ==
    LET wordCounts == CountWords(tokenize(text))
    IN  [i \in DOMAIN vocabulary |-> Lookup(wordCounts, vocabulary[i])]

\* the texts: every short text over a small alphabet, and three given in full
Alphabet == {"a", "B", " ", "-"}
RouterRouterSwitch ==
    <<"R", "o", "u", "t", "e", "r", " ", "r", "o", "u", "t", "e", "r", " ", "s", "w", "i", "t", "c", "h">>
Constructor == <<"c", "o", "n", "s", "t", "r", "u", "c", "t", "o", "r">>
Texts == SeqsUpTo(Alphabet, MaxText) \cup {RouterRouterSwitch, Constructor}
TextLists == {<<>>} \cup {<<t>> : t \in Texts} \cup {<<t, u>> : t, u \in Texts}
VocabularyWords ==
    {<<"a">>, <<"b">>, <<"a", "b">>, <<"r", "o", "u", "t", "e", "r">>,
     <<"s", "w", "i", "t", "c", "h">>, Constructor}
Vocabularies == SeqsUpTo(VocabularyWords, MaxVocab)

InitVocabulary ==
    /\ Idle
    /\ failedFile = NoFile
    /\ productsFile = NoFile
    /\ \E texts \in TextLists : probe = [op |-> "none", texts |-> texts]

callBuildVocabulary ==
    /\ probe.op = "none"
    /\ probe' = [op |-> "buildVocabulary", texts |-> probe.texts,
                 vocabulary |-> buildVocabulary(probe.texts)]
    /\ UNCHANGED <<failedFile, productsFile, idleVars>>

NextVocabulary == callBuildVocabulary

SpecVocabulary == InitVocabulary /\ [][NextVocabulary]_vars

InitVectorize ==
    /\ Idle
    /\ failedFile = NoFile
    /\ productsFile = NoFile
    /\ \E text \in Texts, vocabulary \in Vocabularies :
          probe = [op |-> "none", text |-> text, vocabulary |-> vocabulary]

callVectorize ==
    /\ probe.op = "none"
    /\ probe' = [op |-> "vectorize", text |-> probe.text,
                 vocabulary |-> probe.vocabulary,
                 vector |-> vectorize(probe.text, probe.vocabulary)]
    /\ UNCHANGED <<failedFile, productsFile, idleVars>>

NextVectorize == callVectorize

SpecVectorize == InitVectorize /\ [][NextVectorize]_vars

\* ---------------------------------------------------------------- cosine similarity
\* utils.ts cosineSimilarity.  The components are small integers, so the sums
\* are exact; the quotient dotProduct / (magnitudeA * magnitudeB) is kept as
\* its numerator and the square of its denominator, or is NaN.
Components == {-1, 0, 1, 2}
Vectors == SeqsUpTo(Components, MaxDim)

\* a.reduce((sum, ai) => sum + ai ** 2, 0)
RECURSIVE SumOfSquares(_)
SumOfSquares(a) ==
    IF a = <<>> THEN 0
    ELSE SumOfSquares(SubSeq(a, 1, Len(a) - 1)) + a[Len(a)] * a[Len(a)]

\* a.reduce((sum, ai, i) => sum + ai * b[i], 0), every b[i] being there
RECURSIVE SumOfProducts(_, _)
SumOfProducts(a, b) ==
    IF a = <<>> THEN 0
    ELSE SumOfProducts(SubSeq(a, 1, Len(a) - 1), b) + a[Len(a)] * b[Len(a)]

NotANumber == [nan |-> TRUE, num |-> 0, den2 |-> 0]

\* a similarity that divides by the squared magnitude of its first argument
C20_mut_cosineSimilarity(a, b) ==
    IF Len(a) > Len(b) \/ SumOfSquares(a) * SumOfSquares(b) = 0 THEN NotANumber
    ELSE [nan |-> FALSE, num |-> SumOfProducts(a, b),
          den2 |-> SumOfSquares(a) * SumOfSquares(a)]

\* a similarity that forgets the two square roots
C21_mut_cosineSimilarity(a, b) ==
    IF Len(a) > Len(b) \/ SumOfSquares(a) * SumOfSquares(b) = 0 THEN NotANumber
    ELSE [nan |-> FALSE, num |-> SumOfProducts(a, b),
          den2 |-> SumOfSquares(a) * SumOfSquares(b) * SumOfSquares(a) * SumOfSquares(b)]

\* a similarity whose sums stop at the end of the shorter vector
C35_mut_cosineSimilarity(a, b) ==
    LET n == IF Len(a) < Len(b) THEN Len(a) ELSE Len(b)
        x == SubSeq(a, 1, n)
        y == SubSeq(b, 1, n)
    IN  IF SumOfSquares(x) * SumOfSquares(y) = 0 THEN NotANumber
        ELSE [nan |-> FALSE, num |-> SumOfProducts(x, y),
              den2 |-> SumOfSquares(x) * SumOfSquares(y)]

\* the reduce over a reads b[i] for every index of a: beyond the end of b it is
\* undefined and the sum is NaN (components of b beyond the end of a are left
\* out of the sum, not of magnitudeB); a zero magnitude gives 0 / 0
cosineSimilarity(a, b) ==
    IF Len(a) > Len(b) \/ SumOfSquares(a) * SumOfSquares(b) = 0 THEN NotANumber
    ELSE [nan |-> FALSE, num |-> SumOfProducts(a, b),
          den2 |-> SumOfSquares(a) * SumOfSquares(b)]

InitCosine ==
    /\ Idle
    /\ failedFile = NoFile
    /\ productsFile = NoFile
    /\ \E a, b \in Vectors : probe = [op |-> "none", a |-> a, b |-> b]

\* the function applied to the two vectors, in both orders
callCosineSimilarity ==
    /\ probe.op = "none"
    /\ probe' = [op |-> "cosineSimilarity", a |-> probe.a, b |-> probe.b,
                 ab |-> cosineSimilarity(probe.a, probe.b),
                 ba |-> cosineSimilarity(probe.b, probe.a)]
    /\ UNCHANGED <<failedFile, productsFile, idleVars>>

NextCosine == callCosineSimilarity

SpecCosine == InitCosine /\ [][NextCosine]_vars

\* ---------------------------------------------------------------- dimension mismatch
\* The dot product of cosineSimilarity as JavaScript computes it, one step of
\* the reduce at a time: b[i] beyond the end of b is undefined, a product with
\* undefined is NaN and a sum with NaN is NaN.
Undefined == [type |-> "undefined", n |-> 0]
NaN == [type |-> "NaN", n |-> 0]

\* b[i], i counted from 1 here
ElementAt(b, i) == IF i \in DOMAIN b THEN Number(b[i]) ELSE Undefined

Times(x, y) ==
    IF x.type = "number" /\ y.type = "number" THEN Number(x.n * y.n) ELSE NaN

Plus(x, y) ==
    IF x.type = "number" /\ y.type = "number" THEN Number(x.n + y.n) ELSE NaN

\* a.reduce((sum, ai, i) => sum + ai * b[i], 0)
RECURSIVE dotProduct(_, _)
dotProduct(a, b) ==
    IF a = <<>> THEN Number(0)
    ELSE Plus(dotProduct(SubSeq(a, 1, Len(a) - 1), b),
              Times(Number(a[Len(a)]), ElementAt(b, Len(a))))

\* the vector saveScraperData builds for a record: the vocabulary is built from
\* the text of the record alone
vectorOfRecord(textContent) == vectorize(textContent, buildVocabulary(<<textContent>>))

\* the second vector is given, or is the one saveScraperData stores for a text
InitMismatch ==
    /\ Idle
    /\ failedFile = NoFile
    /\ productsFile = NoFile
    /\ \E a \in Vectors :
          \/ \E b \in Vectors :
                probe = [op |-> "none", from |-> "vector", a |-> a, b |-> b, text |-> <<>>]
          \/ \E text \in Texts :
                probe = [op |-> "none", from |-> "text", a |-> a, b |-> <<>>, text |-> text]

\* saveScraperData 536-551: the vector of the record is stored in a float[]
\* column, which refuses a component that is not a number
storeVector ==
    /\ probe.op = "none"
    /\ probe.from = "text"
    /\ LET vector == vectorOfRecord(probe.text)
       IN  IF \A i \in DOMAIN vector : vector[i].type = "number"
           THEN probe' = [probe EXCEPT !.op = "stored",
                                       !.b = [i \in DOMAIN vector |-> vector[i].n]]
           ELSE probe' = [probe EXCEPT !.op = "refused"]
    /\ UNCHANGED <<failedFile, productsFile, idleVars>>

\* getResponse 571-574: similarity: cosineSimilarity(queryVector, item.vector)
scoreItem ==
    /\ \/ probe.op = "none" /\ probe.from = "vector"
       \/ probe.op = "stored"
    /\ probe' = [op |-> "scored", from |-> probe.from, a |-> probe.a, b |-> probe.b,
                 text |-> probe.text,
                 similarity |-> cosineSimilarity(probe.a, probe.b),
                 dot |-> dotProduct(probe.a, probe.b)]
    /\ UNCHANGED <<failedFile, productsFile, idleVars>>

NextMismatch == storeVector \/ scoreItem

SpecMismatch == InitMismatch /\ [][NextMismatch]_vars

\* ---------------------------------------------------------------- retrieval
\* getResponse: every row of the repository gets the similarity of its vector
\* to the query vector, the rows are sorted and the first five contents are
\* joined.  A similarity is a number (here one of a few levels) or NaN; a row
\* is named by its place in the list find() returned.
Levels == {1, 2}
NaNValue == [nan |-> TRUE, v |-> 0]
Similarities == {NaNValue} \cup {[nan |-> FALSE, v |-> l] : l \in Levels}

\* (a, b) => b.similarity - a.similarity, as Array.prototype.sort reads it: a
\* NaN result counts as +0
comparefn(a, b) == IF a.nan \/ b.nan THEN 0 ELSE b.v - a.v

\* ECMAScript: comparefn is a consistent comparator for the values sorted
ConsistentComparator(scores) ==
    LET S == {scores[i] : i \in DOMAIN scores}
    IN  \A a, b, c \in S :
          /\ (comparefn(a, b) = 0 /\ comparefn(b, c) = 0) => comparefn(a, c) = 0
          /\ (comparefn(a, b) < 0 /\ comparefn(b, c) < 0) => comparefn(a, c) < 0
          /\ (comparefn(a, b) > 0 /\ comparefn(b, c) > 0) => comparefn(a, c) > 0

\* the orders sort may leave the rows in: with a consistent comparator the one
\* stable order; with an inconsistent one the order is implementation-defined
SortOutcomes(scores) ==
    LET orders == Permutations(DOMAIN scores)
    IN  IF ConsistentComparator(scores)
        THEN {o \in orders :
                \A i, j \in DOMAIN o :
                    i < j => \/ comparefn(scores[o[i]], scores[o[j]]) < 0
                             \/ /\ comparefn(scores[o[i]], scores[o[j]]) = 0
                                /\ o[i] < o[j]}
        ELSE orders

slice(array, n) == SubSeq(array, 1, IF Len(array) < n THEN Len(array) ELSE n)

InitRetrieval ==
    /\ Idle
    /\ failedFile = NoFile
    /\ productsFile = NoFile
    /\ \E scores \in SeqsUpTo(Similarities, MaxRows) :
          probe = [op |-> "none", scores |-> scores, topResults |-> <<>>]

getResponse ==
    /\ probe.op = "none"
    /\ \E order \in SortOutcomes(probe.scores) :
          probe' = [probe EXCEPT !.op = "getResponse",
                                 !.topResults = slice(order, TopK)]
    /\ UNCHANGED <<failedFile, productsFile, idleVars>>

NextRetrieval == getResponse

SpecRetrieval == InitRetrieval /\ [][NextRetrieval]_vars

\* ---------------------------------------------------------------- sanitizeUrl
\* The two sanitizeUrl functions that run inside page.evaluate, and the loop
\* over the matched anchors around each.  A string is the sequence of its
\* characters, so that startsWith, match and split are computed.

\* the base handed to both functions: 'https://www.cisco.com'
baseURL ==
    <<"h", "t", "t", "p", "s", ":", "/", "/", "w", "w", "w", ".", "c", "i",
    "s", "c", "o", ".", "c", "o", "m">>

startsWith(url, prefix) ==
    Len(prefix) <= Len(url) /\ SubSeq(url, 1, Len(prefix)) = prefix

\* new RegExp(baseUrl): the "." of the base matches any character, every other
\* character of the base matches itself
RegExpMatchesAt(url, i, pattern) ==
    /\ i + Len(pattern) - 1 <= Len(url)
    /\ \A k \in 1..Len(pattern) : pattern[k] = "." \/ pattern[k] = url[i + k - 1]

\* url.match(new RegExp(baseUrl, 'g'))?.length || 0, counted from position i:
\* the matches are taken from left to right and do not overlap
RECURSIVE matchGlobal(_, _, _)
matchGlobal(url, i, pattern) ==
    IF i + Len(pattern) - 1 > Len(url) THEN 0
    ELSE IF RegExpMatchesAt(url, i, pattern)
         THEN 1 + matchGlobal(url, i + Len(pattern), pattern)
         ELSE matchGlobal(url, i + 1, pattern)

\* url.indexOf(separator): the first position of the text itself, 0 for none
indexOf(url, separator) ==
    LET at == {i \in 1..Len(url) : startsWith(SubSeq(url, i, Len(url)), separator)}
    IN  IF at = {} THEN 0 ELSE CHOOSE i \in at : \A j \in at : i <= j

\* url.split(baseUrl).pop(): what follows the last piece cut off at the text
\* of the base, the whole url when the text is not found
RECURSIVE splitPop(_, _)
splitPop(url, separator) ==
    LET i == indexOf(url, separator)
    IN  IF i = 0 THEN url
        ELSE splitPop(SubSeq(url, i + Len(separator), Len(url)), separator)

Null == [null |-> TRUE]
Sanitized(url) == [null |-> FALSE, url |-> url]

\* a sanitizer that leaves a repeated base as it found it
C22_mut_sanitizeUrl(url, baseUrl) ==
    IF url = <<>> THEN Null
    ELSE IF startsWith(url, <<"/", "/", "w", "w", "w">>)
    THEN Sanitized(<<"h", "t", "t", "p", "s", ":">> \o url)
    ELSE IF startsWith(url, <<"/">>) THEN Sanitized(baseUrl \o url)
    ELSE IF startsWith(url, <<"h", "t", "t", "p">>) THEN Sanitized(url)
    ELSE Null

\* scrapeProductsForCategory: sanitizeUrl.  An absent href (getAttribute gives
\* null) and an empty one are the empty sequence.
sanitizeUrl(url, baseUrl) ==
    IF url = <<>> THEN Null
    ELSE IF startsWith(url, <<"/", "/", "w", "w", "w">>)
    THEN Sanitized(<<"h", "t", "t", "p", "s", ":">> \o url)
    ELSE IF startsWith(url, baseUrl)
    THEN IF matchGlobal(url, 1, baseUrl) > 1
         THEN Sanitized(baseUrl \o splitPop(url, baseUrl))
         ELSE Sanitized(url)
    ELSE IF startsWith(url, <<"/">>) THEN Sanitized(baseUrl \o url)
    ELSE IF startsWith(url, <<"h", "t", "t", "p">>) THEN Sanitized(url)
    ELSE Null

\* scrapeInternalLinksForProduct: sanitizeUrl
sanitizeInternalUrl(url, baseUrl) ==
    IF url = <<>> THEN Null
    ELSE IF startsWith(url, <<"/">>) THEN Sanitized(baseUrl \o url)
    ELSE IF startsWith(url, <<"h", "t", "t", "p">>) THEN Sanitized(url)
    ELSE Null

\* the texts the hrefs of a page are made of
\* matched by the pattern of the base, not the text of the base
LookAlike ==
    <<"h", "t", "t", "p", "s", ":", "/", "/", "w", "w", "w", "-", "c", "i",
    "s", "c", "o", ".", "c", "o", "m">>
ProtocolRelativeWww ==
    <<"/", "/", "w", "w", "w", ".", "c", "i", "s", "c", "o", ".", "c", "o",
    "m">>
ProtocolRelative ==
    <<"/", "/", "c", "d", "n", ".", "c", "i", "s", "c", "o", ".", "c", "o",
    "m">>
RootRelative ==
    <<"/", "p">>
Absolute ==
    <<"h", "t", "t", "p", ":", "/", "/", "a", ".", "b">>
Script ==
    <<"j", "a", "v", "a", "s", "c", "r", "i", "p", "t", ":", "v", "o", "i",
    "d", "(", "0", ")">>

Pieces ==
    {baseURL, LookAlike, ProtocolRelativeWww, ProtocolRelative, RootRelative,
     Absolute, Script}

RECURSIVE Flatten(_)
Flatten(parts) ==
    IF parts = <<>> THEN <<>> ELSE Head(parts) \o Flatten(Tail(parts))

\* the hrefs: at most MaxParts of the texts, one after the other
Hrefs == {Flatten(parts) : parts \in SeqsUpTo(Pieces, MaxParts)}

\* textContent?.trim() of an anchor
AnchorTexts == Names \cup {""}

InitSanitize ==
    /\ Idle
    /\ failedFile = NoFile
    /\ productsFile = NoFile
    /\ \E href \in Hrefs, text \in AnchorTexts :
          probe = [op |-> "none", href |-> href, text |-> text]

\* one turn of the loop of scrapeProductsForCategory over the matched anchors
forProductElement ==
    /\ probe.op = "none"
    /\ LET sanitizedLink == sanitizeUrl(probe.href, baseURL)
       IN  probe' = [op |-> "product", href |-> probe.href, text |-> probe.text,
                     sanitizedLink |-> sanitizedLink,
                     list |-> IF probe.text # "" /\ ~sanitizedLink.null
                              THEN <<[name |-> probe.text, link |-> sanitizedLink.url]>>
                              ELSE <<>>]
    /\ UNCHANGED <<failedFile, productsFile, idleVars>>

\* one turn of the loop of scrapeInternalLinksForProduct
forLinkElement ==
    /\ probe.op = "none"
    /\ LET sanitizedLink == sanitizeInternalUrl(probe.href, baseURL)
       IN  probe' = [op |-> "internalLink", href |-> probe.href, text |-> probe.text,
                     sanitizedLink |-> sanitizedLink,
                     list |-> IF ~sanitizedLink.null
                              THEN <<[name |-> probe.text, link |-> sanitizedLink.url]>>
                              ELSE <<>>]
    /\ UNCHANGED <<failedFile, productsFile, idleVars>>

NextSanitize == forProductElement \/ forLinkElement

SpecSanitize == InitSanitize /\ [][NextSanitize]_vars

\* ---------------------------------------------------------------- scalar fields
\* The loop of extractProductData over the string selectors of the schema,
\* for a page on which the evaluation goes through, and the test processLinks
\* makes on the record.  The texts are those of the elements the selector of
\* one required field matches, in document order.

\* String.prototype.trim
RECURSIVE trim(_)
trim(text) ==
    IF text = <<>> THEN <<>>
    ELSE IF Head(text) \in Whitespace THEN trim(Tail(text))
    ELSE IF text[Len(text)] \in Whitespace THEN trim(SubSeq(text, 1, Len(text) - 1))
    ELSE text

trimEach(texts) == [i \in DOMAIN texts |-> trim(texts[i])]

\* extractText: .map((el) => el.textContent?.trim() || '').filter(Boolean)
extractText(texts) == filterBoolean(trimEach(texts))

\* elements.join(' ')
RECURSIVE join(_)
join(elements) ==
    IF elements = <<>> THEN <<>>
    ELSE IF Len(elements) = 1 THEN Head(elements)
    ELSE Head(elements) \o <<" ">> \o join(Tail(elements))

\* a replace that leaves the whitespace as it is
C25_mut_replaceWhitespaceRuns(text) == text

\* .replace(/\s+/g, ' '): one space for every run of whitespace
RECURSIVE replaceWhitespaceRuns(_)
replaceWhitespaceRuns(text) ==
    IF text = <<>> THEN <<>>
    ELSE LET n == Len(text)
             before == replaceWhitespaceRuns(SubSeq(text, 1, n - 1))
         IN  IF text[n] \notin Whitespace THEN Append(before, text[n])
             ELSE IF n > 1 /\ text[n - 1] \in Whitespace THEN before
             ELSE Append(before, " ")

\* data[key] of one string selector
cleanedData(texts) ==
    replaceWhitespaceRuns(join(filterBoolean(trimEach(extractText(texts)))))

RouterX == <<" ", "R", "o", "u", "t", "e", "r", " ", "X", " ">>
RouterTabX == <<"R", "o", "u", "t", "e", "r", "\t", " ", "X">>
ElementTexts == SeqsUpTo({"A", " ", "\t"}, MaxText) \cup {RouterX, RouterTabX}
ElementLists ==
    {<<>>} \cup {<<t>> : t \in ElementTexts} \cup {<<t, u>> : t, u \in ElementTexts}
\* what the selector of the other required field matches
OtherLists == {<<>>, << <<" ">> >>, << <<"B">> >>}
RequiredKeys == {"title", "preTitle"}

InitScalar ==
    /\ Idle
    /\ failedFile = NoFile
    /\ productsFile = NoFile
    /\ \E key \in RequiredKeys, texts \in ElementLists, other \in OtherLists :
          probe = [op |-> "none", key |-> key, texts |-> texts, other |-> other]

\* the two required fields of the record and the test of processLinks on them
extractScalarFields ==
    /\ probe.op = "none"
    /\ LET title == cleanedData(IF probe.key = "title" THEN probe.texts ELSE probe.other)
           preTitle == cleanedData(IF probe.key = "preTitle" THEN probe.texts ELSE probe.other)
       IN  probe' = [op |-> "scalar", key |-> probe.key, texts |-> probe.texts,
                     other |-> probe.other,
                     data |-> [title |-> title, preTitle |-> preTitle],
                     complete |-> requiredFieldsPresent(title # <<>>, preTitle # <<>>)]
    /\ UNCHANGED <<failedFile, productsFile, idleVars>>

NextScalar == extractScalarFields

SpecScalar == InitScalar /\ [][NextScalar]_vars

\* ---------------------------------------------------------------- expandable panels
\* The dataModal part of extractProductData.  Outside retry mode the modal
\* selector matches the buttons of an accordion, each naming its panel by
\* aria-controls; in retry mode it matches one container.  A tier hands the
\* function its own schema and retry flag.

JsNull == "<null>"

\* a button: its aria-label ("" for none), its trimmed text, its aria-controls
Triggers == [ariaLabel : {"", "L"}, text : {"", "T"}, ariaControls : AriaControls]

\* the trimmed texts of the elements the content selector matches in a panel
\* or in the container
ContentItems == {<<>>, <<"c1", "c2">>, <<"c1", "">>}

AccordionPages ==
    [benefits : BOOLEAN, triggers : SeqsUpTo(Triggers, MaxTriggers),
     items : ContentItems]
\* title: "absent" when the title selector matches nothing in the container
ContainerPages ==
    [benefits : BOOLEAN, present : BOOLEAN, title : {"absent", "", "t"},
     items : ContentItems]

\* processLinks as called by startScraping, retryFailedLinks and
\* retryFailedLinksForCompactText
TierCalls ==
    {[tier |-> 0, config |-> initialScraperConfig, isRetry |-> FALSE],
     [tier |-> 1, config |-> retryScraperConfig, isRetry |-> TRUE],
     [tier |-> 2, config |-> retryForCompactScraperConfig, isRetry |-> TRUE]}

\* .map((el) => el.textContent?.trim() || '').join(' ')
RECURSIVE joinStrings(_)
joinStrings(items) ==
    IF items = <<>> THEN ""
    ELSE IF Len(items) = 1 THEN Head(items)
    ELSE Head(items) \o " " \o joinStrings(Tail(items))

OrNull(text) == IF text = "" THEN JsNull ELSE text

Resolves(trigger) == trigger.ariaControls = "panel-1"

\* button.getAttribute('aria-label') || button.textContent?.trim() || ''
titleOf(trigger) == IF trigger.ariaLabel # "" THEN trigger.ariaLabel ELSE trigger.text

\* .map((button) => ...).filter(Boolean)
RECURSIVE dataModals(_, _)
dataModals(triggers, items) ==
    IF triggers = <<>> THEN <<>>
    ELSE LET rest == dataModals(Tail(triggers), items)
         IN  IF Resolves(Head(triggers))
             THEN <<[title |-> titleOf(Head(triggers)),
                     content |-> joinStrings(items)]>> \o rest
             ELSE rest

\* the dataModal block: what it adds to data, or the error of a query
extractDataModal(page, config, isRetry) ==
    IF isRetry
    THEN IF InvalidSelector(config.dataModal.modal) THEN [threw |-> TRUE]
         ELSE IF ~page.present THEN [threw |-> FALSE, key |-> "none"]
         ELSE IF \/ InvalidSelector(config.dataModal.fields.title)
                 \/ InvalidSelector(config.dataModal.fields.content)
              THEN [threw |-> TRUE]
              ELSE [threw |-> FALSE, key |-> "modal",
                    value |-> [title |-> IF page.title = "absent" THEN JsNull
                                         ELSE OrNull(page.title),
                               content |-> [i \in DOMAIN page.items |->
                                               OrNull(page.items[i])]]]
    ELSE IF \E i \in DOMAIN page.triggers :
               \/ InvalidSelector("#" \o page.triggers[i].ariaControls)
               \/ /\ Resolves(page.triggers[i])
                  /\ InvalidSelector(config.dataModal.fields.content)
         THEN [threw |-> TRUE]
         ELSE [threw |-> FALSE, key |-> "dataModals",
               value |-> dataModals(page.triggers, page.items)]

InitModal ==
    /\ Idle
    /\ failedFile = NoFile
    /\ productsFile = NoFile
    /\ \E call \in TierCalls :
          \E page \in IF call.isRetry THEN ContainerPages ELSE AccordionPages :
              probe = [op |-> "none", call |-> call, page |-> page]

\* extractProductData on the page: the blocks before the dataModal block
\* (benefits) may reject the evaluation as well
extractWithDataModal ==
    /\ probe.op = "none"
    /\ LET config == probe.call.config
           isRetry == probe.call.isRetry
           others == [matches |-> IF probe.page.benefits THEN {"benefits"} ELSE {},
                      ariaControls |-> "null"]
           modal == extractDataModal(probe.page, config, isRetry)
       IN  probe' = [op |-> "dataModal", call |-> probe.call, page |-> probe.page,
                     productData |->
                        IF evaluateThrows(others, config, isRetry) \/ modal.threw
                        THEN [threw |-> TRUE]
                        ELSE [threw |-> FALSE, dataModal |-> modal]]
    /\ UNCHANGED <<failedFile, productsFile, idleVars>>

NextModal == extractWithDataModal

SpecModal == InitModal /\ [][NextModal]_vars

\* ---------------------------------------------------------------- navigation
\* The loop of one pass (processLinks for tiers 0 to 2, the loops of
\* retryFailedLinksForAllContent and retryFailedLinksForBody for tiers 3 and
\* 4) with the navigation as a step of its own: page.goto is started, and it
\* ends when the page answers (it loads or the navigation is rejected) or
\* when the timeout given to it runs out.  A page need never answer.

\* a pass whose navigation is never given a timeout
C27_mut_gotoTimeout(t) == NoTimeout

\* the timeout option of page.goto in the loop of tier t
gotoTimeout(t) == IF t = 3 THEN NavigationTimeout ELSE NoTimeout

\* how a turn of the loop goes on once the navigation has ended: the record is
\* saved, the target is recorded as failed, or the write of the catch block
\* fails and the loop is left
Outcomes == {"saved", "failed", "aborted"}

InitNavigation ==
    /\ Idle
    /\ failedFile = NoFile
    /\ productsFile = NoFile
    /\ \E t \in 0..4, n \in 1..MaxPass :
          probe = [op |-> "loop", tier |-> t, n |-> n, i |-> 1,
                   timeout |-> NoTimeout, turns |-> <<>>]

endOfTurn(by, outcome) ==
    probe' = [probe EXCEPT
                 !.op = IF outcome = "aborted" THEN "done" ELSE "loop",
                 !.i = @ + 1,
                 !.turns = Append(@, [by |-> by, outcome |-> outcome])]

\* await page.goto(url, {waitUntil, timeout})
gotoBegin ==
    /\ probe.op = "loop"
    /\ probe.i <= probe.n
    /\ probe' = [probe EXCEPT !.op = "goto", !.timeout = gotoTimeout(probe.tier)]
    /\ UNCHANGED <<failedFile, productsFile, idleVars>>

\* the page answers, and the turn is carried to its end
gotoReturns ==
    /\ probe.op = "goto"
    /\ \E outcome \in Outcomes : endOfTurn("page", outcome)
    /\ UNCHANGED <<failedFile, productsFile, idleVars>>

\* the timeout runs out: page.goto rejects with a TimeoutError and the catch
\* block of the turn records the target as failed
gotoTimesOut ==
    /\ probe.op = "goto"
    /\ probe.timeout > NoTimeout
    /\ \E outcome \in {"failed", "aborted"} : endOfTurn("timeout", outcome)
    /\ UNCHANGED <<failedFile, productsFile, idleVars>>

loopEnds ==
    /\ probe.op = "loop"
    /\ probe.i > probe.n
    /\ probe' = [probe EXCEPT !.op = "done"]
    /\ UNCHANGED <<failedFile, productsFile, idleVars>>

NextNavigation == gotoBegin \/ gotoReturns \/ gotoTimesOut \/ loopEnds

\* the continuation of an await is run and a timer that is due fires; nothing
\* makes a page answer
SpecNavigation ==
    /\ InitNavigation
    /\ [][NextNavigation]_vars
    /\ WF_vars(gotoBegin)
    /\ WF_vars(gotoTimesOut)
    /\ WF_vars(loopEnds)

\* ---------------------------------------------------------------- the controller
\* The GET handlers of ScraperController that start pipeline work.  A handler
\* calls the service method; the HTTP response is sent when the handler
\* returns, which is at once if the call is not awaited and when the promise
\* of the service settles if it is.  The promise settles with a value or with
\* an error; "failed" tells whether the work met a failure, caught inside the
\* service or not.

Endpoints ==
    {"scrape-data-to-json", "scrape-data-to-database", "scrape-new-data",
     "merge-all-products", "scrape-products-content"}

Resolved(value, failed) == [settled |-> "resolved", value |-> value, failed |-> failed]
Rejected == [settled |-> "rejected", value |-> "error", failed |-> TRUE]

\* how the promise of the service method behind an endpoint can settle
\*   scapeToJsonFile: every pass catches its errors, puppeteer.launch of
\*     startScraping stands outside the try
\*   scapeToDataBase: true, or false from its catch
\*   scrapeData: all errors are caught inside
\*   mergeAllProducts, scrapeProductsContent: no try/catch around the file
\*     operations
ServiceResults(endpoint) ==
    CASE endpoint = "scrape-data-to-json" ->
            {Resolved("undefined", FALSE), Resolved("undefined", TRUE), Rejected}
      [] endpoint = "scrape-data-to-database" ->
            {Resolved("true", FALSE), Resolved("false", TRUE)}
      [] endpoint = "scrape-new-data" ->
            {Resolved("undefined", FALSE), Resolved("undefined", TRUE)}
      [] endpoint = "merge-all-products" -> {Resolved("products", FALSE), Rejected}
      [] endpoint = "scrape-products-content" ->
            {Resolved("undefined", FALSE), Rejected}

\* a handler that awaits no service call
C28_mut_Awaited(endpoint) == FALSE

\* the handlers that await the service call
Awaited(endpoint) == endpoint # "scrape-new-data"

InternalServerError == "500 Internal Server Error"

\* the body the handler returns once the awaited call has settled
ResponseTo(endpoint, result) ==
    IF result.settled = "rejected" THEN InternalServerError
    ELSE CASE endpoint = "scrape-data-to-json" -> "scrapping started"
           [] endpoint = "scrape-data-to-database" -> result.value
           [] endpoint = "merge-all-products" -> result.value
           [] endpoint = "scrape-products-content" -> "content scrapping started"
           [] endpoint = "scrape-new-data" -> "scrapping started"

InitController ==
    /\ Idle
    /\ failedFile = NoFile
    /\ productsFile = NoFile
    /\ probe = [op |-> "idle", log |-> <<>>]

\* a request arrives and the handler calls the service
handle(endpoint) ==
    /\ probe.op = "idle"
    /\ Len(probe.log) < MaxRequests
    /\ probe' = [op |-> "working", log |-> probe.log, endpoint |-> endpoint,
                 response |-> IF Awaited(endpoint) THEN "none"
                              ELSE "scrapping started"]
    /\ UNCHANGED <<failedFile, productsFile, idleVars>>

scapeToJsonFileHandler == handle("scrape-data-to-json")
scapeToDataBaseHandler == handle("scrape-data-to-database")
scrapeDataHandler == handle("scrape-new-data")
mergeAllProductsHandler == handle("merge-all-products")
scrapeProductsContentHandler == handle("scrape-products-content")

\* the promise of the service settles; a handler that awaited it returns
serviceSettles ==
    /\ probe.op = "working"
    /\ \E result \in ServiceResults(probe.endpoint) :
          LET response == IF probe.response = "none"
                          THEN ResponseTo(probe.endpoint, result)
                          ELSE probe.response
          IN  probe' = [op |-> "idle",
                        log |-> Append(probe.log,
                                   [endpoint |-> probe.endpoint, result |-> result,
                                    response |-> response,
                                    waited |-> probe.response = "none"])]
    /\ UNCHANGED <<failedFile, productsFile, idleVars>>

NextController ==
    \/ scapeToJsonFileHandler
    \/ scapeToDataBaseHandler
    \/ scrapeDataHandler
    \/ mergeAllProductsHandler
    \/ scrapeProductsContentHandler
    \/ serviceSettles

SpecController == InitController /\ [][NextController]_vars

\* ---------------------------------------------------------------- the repository
\* scapeToDataBase: the records of the product store are looked up by url in
\* the repository and the missing ones inserted.  The repository is the table
\* of ScraperData, whose url column is unique; a lookup and the insert that
\* follows it are two awaits, so that the turns of two requests interleave.

\* the link of a product whose page is at u
LinkTo(u) == [productUrl |-> u, productName |-> CHOOSE n \in Names : TRUE]

Row(id, url, content) == [id |-> id, url |-> url, content |-> content]
RowUrls(rows) == {rows[i].url : i \in DOMAIN rows}

\* the stores a run reads: lists of urls, a url more than once included
DatabaseStores == SeqsUpTo(URLs, MaxStore)
\* the table before the first run
Repositories == {<<>>, <<Row(1, "u1", "old")>>}

\* findOneBy({url}); an error of the query is caught and gives null
getScraperRecordByUrl(rows, url, queryFails) ==
    ~queryFails /\ url \in RowUrls(rows)

\* an insert that no unique constraint stops
C29_mut_saveScraperDataThrows(rows, url, dbFails) == dbFails

\* repository.save of a new entity: an INSERT, refused when the url is taken
saveScraperDataThrows(rows, url, dbFails) == dbFails \/ url \in RowUrls(rows)

saveScraperData(rows, url) == Append(rows, Row(Len(rows) + 1, url, "new"))

DatabaseRuns == 1..MaxRuns
\* found and saved: the positions of the store the run found in the repository,
\* and those it inserted
NoRun == [pc |-> "idle", i |-> 1, ifRecordExist |-> FALSE, returned |-> "none",
          found |-> {}, saved |-> {}]

InitDatabase ==
    /\ Idle
    /\ failedFile = NoFile
    /\ \E store \in DatabaseStores, rows \in Repositories :
          /\ productsFile \in
                {FileOf([i \in DOMAIN store |-> ProductData(LinkTo(store[i]), Structured)])}
                    \cup (IF store = <<>> THEN {NoFile, CorruptFile} ELSE {})
          /\ probe = [op |-> "database", store |-> store, rows |-> rows,
                      runs |-> [r \in DatabaseRuns |-> NoRun]]

SetRun(r, state) == probe' = [probe EXCEPT !.runs[r] = state]

\* the request arrives: the file is read and parsed; an error of readFile or
\* JSON.parse goes to the catch block, which returns false
scapeToDataBaseBegin(r) ==
    /\ probe.op = "database"
    /\ probe.runs[r].pc = "idle"
    /\ IF Readable(productsFile)
       THEN SetRun(r, [probe.runs[r] EXCEPT !.pc = "lookup"])
       ELSE SetRun(r, [probe.runs[r] EXCEPT !.pc = "done", !.returned = "false"])
    /\ UNCHANGED <<failedFile, productsFile, idleVars>>

\* const ifRecordExist = await this.getScraperRecordByUrl(productUrl)
lookup(r) ==
    /\ probe.op = "database"
    /\ probe.runs[r].pc = "lookup"
    /\ probe.runs[r].i <= Len(probe.store)
    /\ \E queryFails \in BOOLEAN :
          SetRun(r, [probe.runs[r] EXCEPT
                        !.pc = "save",
                        !.ifRecordExist =
                            getScraperRecordByUrl(probe.rows,
                                probe.store[probe.runs[r].i], queryFails)])
    /\ UNCHANGED <<failedFile, productsFile, idleVars>>

\* a loop that logs the error of a save and goes on with the next record
C34_mut_saveOrSkip(r) ==
    /\ probe.op = "database"
    /\ probe.runs[r].pc = "save"
    /\ LET mine == probe.runs[r]
           url == probe.store[mine.i]
           next == [mine EXCEPT !.pc = "lookup", !.i = @ + 1]
       IN  \/ /\ mine.ifRecordExist
              /\ SetRun(r, [next EXCEPT !.found = @ \cup {mine.i}])
           \/ /\ ~mine.ifRecordExist
              /\ \E dbFails \in BOOLEAN :
                    IF saveScraperDataThrows(probe.rows, url, dbFails)
                    THEN SetRun(r, next)
                    ELSE probe' = [probe EXCEPT
                                      !.rows = saveScraperData(probe.rows, url),
                                      !.runs[r] = [next EXCEPT !.saved = @ \cup {mine.i}]]
    /\ UNCHANGED <<failedFile, productsFile, idleVars>>

\* if (!ifRecordExist) await this.saveScraperData(productData); an error ends
\* the run in the catch block, which returns false
saveOrSkip(r) ==
    /\ probe.op = "database"
    /\ probe.runs[r].pc = "save"
    /\ LET mine == probe.runs[r]
           url == probe.store[mine.i]
           next == [mine EXCEPT !.pc = "lookup", !.i = @ + 1]
       IN  \/ /\ mine.ifRecordExist
              /\ SetRun(r, [next EXCEPT !.found = @ \cup {mine.i}])
           \/ /\ ~mine.ifRecordExist
              /\ \E dbFails \in BOOLEAN :
                    IF saveScraperDataThrows(probe.rows, url, dbFails)
                    THEN SetRun(r, [mine EXCEPT !.pc = "done", !.returned = "false"])
                    ELSE probe' = [probe EXCEPT
                                      !.rows = saveScraperData(probe.rows, url),
                                      !.runs[r] = [next EXCEPT !.saved = @ \cup {mine.i}]]
    /\ UNCHANGED <<failedFile, productsFile, idleVars>>

scapeToDataBaseReturn(r) ==
    /\ probe.op = "database"
    /\ probe.runs[r].pc = "lookup"
    /\ probe.runs[r].i > Len(probe.store)
    /\ SetRun(r, [probe.runs[r] EXCEPT !.pc = "done", !.returned = "true"])
    /\ UNCHANGED <<failedFile, productsFile, idleVars>>

NextDatabase ==
    \E r \in DatabaseRuns :
        \/ scapeToDataBaseBegin(r)
        \/ lookup(r)
        \/ saveOrSkip(r)
        \/ scapeToDataBaseReturn(r)

SpecDatabase == InitDatabase /\ [][NextDatabase]_vars

\* ---------------------------------------------------------------- one target, step by step
\* One iteration of a per-target loop (processLinks 104-167, and the loops of
\* retryFailedLinksForAllContent 381-443 and retryFailedLinksForBody 472-520),
\* one awaited file operation per step. probe.at is the statement the iteration
\* is at, probe.io tells whether one of its file operations failed.
UniqueLists(S, n) == {q \in SeqsUpTo(S, n) : \A i, j \in DOMAIN q : q[i] = q[j] => i = j}
FailedLists == UniqueLists(URLs, MaxLinks)
TargetTiers == 0..4

\* a Failed set and a store the program can have written (one entry per url); in
\* a retry tier the target is an entry of the Failed set the tier has read
InitTarget ==
    /\ Idle
    /\ \E fl \in FailedLists, reason \in {MissingRequiredFields, NavigationError} :
          failedFile \in {NoFile, FileOf([i \in DOMAIN fl |-> FailedEntry(LinkTo(fl[i]), reason)])}
    /\ \E st \in FailedLists :
          productsFile \in {NoFile, FileOf([i \in DOMAIN st |-> ProductData(LinkTo(st[i]), Structured)])}
    /\ \E t \in TargetTiers, u \in URLs :
          /\ removesOnSuccess(t) => u \in FailedUrls
          /\ probe = [op |-> "target", tier |-> t, link |-> LinkTo(u), at |-> "goto",
                      io |-> FALSE, reason |-> "none"]

\* goto and the extraction (117-125, 385-411, 476-488): they throw, or return a
\* record that fails or meets the tier's success predicate
visitTarget ==
    /\ probe.op = "target"
    /\ probe.at = "goto"
    /\ \E outcome \in {"threw", "incomplete", "complete"} :
          probe' = [probe EXCEPT
                       !.at = CASE outcome = "threw" -> "catch"
                                [] outcome = "incomplete" -> "saveFailed"
                                [] OTHER -> "saveProduct",
                       !.reason = IF outcome = "threw" THEN NavigationError ELSE @]
    /\ UNCHANGED <<failedFile, productsFile, idleVars>>

\* the saveFailedProductLineByLine of the incomplete branch (132-140, 413-420,
\* 490-497), then continue
saveIncomplete ==
    /\ probe.op = "target"
    /\ probe.at = "saveFailed"
    /\ \E ioFailed \in BOOLEAN :
          IF ioFailed
          THEN /\ probe' = [probe EXCEPT !.at = "catch", !.io = TRUE, !.reason = FileError]
               /\ UNCHANGED failedFile
          ELSE /\ failedFile' = saveFailedProductLineByLine(
                                    failedFile, FailedEntry(probe.link, MissingRequiredFields))
               /\ probe' = [probe EXCEPT !.at = "done"]
    /\ UNCHANGED <<productsFile, idleVars>>

\* await this.saveProductData(productData) (145, 430, 507)
saveComplete ==
    /\ probe.op = "target"
    /\ probe.at = "saveProduct"
    /\ \E ioProduct \in BOOLEAN :
          IF ioProduct
          THEN /\ probe' = [probe EXCEPT !.at = "catch", !.io = TRUE, !.reason = FileError]
               /\ UNCHANGED productsFile
          ELSE /\ productsFile' = saveProductData(
                                      productsFile,
                                      ProductData(probe.link,
                                                  IF probe.tier <= 2 THEN Structured
                                                  ELSE ContentOnly))
               /\ probe' = [probe EXCEPT !.at = IF removesOnSuccess(probe.tier)
                                                THEN "remove" ELSE "done"]
    /\ UNCHANGED <<failedFile, idleVars>>

\* await this.removeFailedProduct(url) (147-149, 431, 508); a file error is
\* caught inside removeFailedProduct
removeAfterSave ==
    /\ probe.op = "target"
    /\ probe.at = "remove"
    /\ \E ioRemove \in BOOLEAN :
          IF ioRemove
          THEN /\ probe' = [probe EXCEPT !.at = "done", !.io = TRUE]
               /\ UNCHANGED failedFile
          ELSE /\ failedFile' = removeFailedProduct(failedFile, probe.link.productUrl)
               /\ probe' = [probe EXCEPT !.at = "done"]
    /\ UNCHANGED <<productsFile, idleVars>>

\* the catch block of the iteration (157-166, 436-442, 513-519): its
\* saveFailedProductLineByLine is not guarded, an error of it leaves the loop
catchTarget ==
    /\ probe.op = "target"
    /\ probe.at = "catch"
    /\ \E ioCatch \in BOOLEAN :
          IF ioCatch
          THEN /\ probe' = [probe EXCEPT !.at = "raised", !.io = TRUE]
               /\ UNCHANGED failedFile
          ELSE /\ failedFile' = saveFailedProductLineByLine(
                                    failedFile, FailedEntry(probe.link, probe.reason))
               /\ probe' = [probe EXCEPT !.at = "done"]
    /\ UNCHANGED <<productsFile, idleVars>>

NextTarget ==
    \/ visitTarget
    \/ saveIncomplete
    \/ saveComplete
    \/ removeAfterSave
    \/ catchTarget

SpecTarget == InitTarget /\ [][NextTarget]_vars

\* ---------------------------------------------------------------- the category file
\* scrapedData, the in-memory category list, and json/products-list.json.  The
\* constructor starts ensureFileExists and does not wait for it; scrapeData
\* calls addCategoryToFile for every category it has scraped, and
\* addCategoryToFile starts writeDataToFile without waiting for it.  A write in
\* flight carries the text JSON.stringify produced when it was started; the
\* writes and the steps of ensureFileExists complete in any order.
CategoryLinks == {"k1", "k2"}
ProductLists == {"first", "second"}
Category == [link : CategoryLinks, products : ProductLists]
CategoryLists ==
    {q \in SeqsUpTo(Category, MaxCats) : \A i, j \in DOMAIN q : q[i].link = q[j].link => i = j}

\* this.scrapedData.some((existing) => existing.link === category.link)
isDuplicate(scrapedData, category) ==
    \E i \in DOMAIN scrapedData : scrapedData[i].link = category.link

\* a push without the test of the link
C37_mut_addCategoryToFile(scrapedData, category) == Append(scrapedData, category)

\* addCategoryToFile, the list after the call
addCategoryToFile(scrapedData, category) ==
    IF ~isDuplicate(scrapedData, category) THEN Append(scrapedData, category)
    ELSE scrapedData

NoCall == [category |-> [link |-> "none", products |-> "none"], isDuplicate |-> FALSE,
           before |-> <<>>]

\* after construction: the list is empty (line 40), ensureFileExists has been
\* called; the file is missing, unreadable, or a list an earlier process wrote
InitCategories ==
    /\ Idle
    /\ failedFile = NoFile
    /\ productsFile = NoFile
    /\ \E file \in {NoFile, CorruptFile} \cup {FileOf(q) : q \in CategoryLists} :
          probe = [op |-> "categories", file |-> file, scrapedData |-> <<>>,
                   ensure |-> "access", fileContent |-> <<>>,
                   writes |-> {}, issued |-> 0, failed |-> FALSE,
                   at |-> "idle", runs |-> 0, left |-> 0, call |-> NoCall]

\* a write is started: the list is serialised now, the file changes later
WritesAfter(data, caller) ==
    probe.writes \cup {[id |-> probe.issued + 1, data |-> data, by |-> caller]}

\* ensureFileExists up to readFile: fs.access rejects on a missing file and
\* the catch block empties the list and starts the write of '[]'
ensureFileExistsRead ==
    /\ probe.op = "categories"
    /\ probe.ensure = "access"
    /\ IF probe.file.exists
       THEN probe' = [probe EXCEPT !.ensure = "parse", !.fileContent = probe.file]
       ELSE probe' = [probe EXCEPT !.ensure = "write",
                                   !.scrapedData = <<>>,
                                   !.writes = WritesAfter(<<>>, "ensureFileExists"),
                                   !.issued = @ + 1]
    /\ UNCHANGED <<failedFile, productsFile, idleVars>>

\* this.scrapedData = JSON.parse(fileContent || '[]'); when JSON.parse throws
\* the catch block empties the list and starts the write of '[]'
ensureFileExistsParse ==
    /\ probe.op = "categories"
    /\ probe.ensure = "parse"
    /\ IF ~probe.fileContent.corrupt
       THEN probe' = [probe EXCEPT !.ensure = "done",
                                   !.scrapedData = probe.fileContent.data]
       ELSE probe' = [probe EXCEPT !.ensure = "write",
                                   !.scrapedData = <<>>,
                                   !.writes = WritesAfter(<<>>, "ensureFileExists"),
                                   !.issued = @ + 1]
    /\ UNCHANGED <<failedFile, productsFile, idleVars>>

\* a request starts scrapeData; scrapeCategories has returned its categories
scrapeDataBegin ==
    /\ probe.op = "categories"
    /\ probe.at \in {"idle", "returned"}
    /\ probe.runs < MaxRuns
    /\ \E n \in 0..MaxCats :
          probe' = [probe EXCEPT !.at = "loop", !.runs = @ + 1, !.left = n]
    /\ UNCHANGED <<failedFile, productsFile, idleVars>>

\* one iteration of the loop of scrapeData: the products of the category are
\* scraped and addCategoryToFile is called, or the scraping throws and the
\* catch block logs
scrapeDataLoop ==
    /\ probe.op = "categories"
    /\ probe.at = "loop"
    /\ probe.left > 0
    /\ \/ probe' = [probe EXCEPT !.left = @ - 1]
       \/ \E category \in Category :
             LET list == addCategoryToFile(probe.scrapedData, category)
             IN  probe' = [probe EXCEPT
                     !.left = @ - 1,
                     !.scrapedData = list,
                     !.writes = IF list # probe.scrapedData THEN WritesAfter(list, "writeDataToFile") ELSE @,
                     !.issued = IF list # probe.scrapedData THEN @ + 1 ELSE @,
                     !.call = [category |-> category,
                               isDuplicate |-> isDuplicate(probe.scrapedData, category),
                               before |-> probe.scrapedData]]
    /\ UNCHANGED <<failedFile, productsFile, idleVars>>

scrapeDataReturn ==
    /\ probe.op = "categories"
    /\ probe.at = "loop"
    /\ probe.left = 0
    /\ probe' = [probe EXCEPT !.at = "returned"]
    /\ UNCHANGED <<failedFile, productsFile, idleVars>>

\* fs.writeFile of a write in flight completes: the file holds its text.  An
\* error of it is caught and logged by writeDataToFile (ensureFileExists lets
\* it reject, nobody waits for it).
writeFileSettles ==
    /\ probe.op = "categories"
    /\ \E w \in probe.writes, ok \in BOOLEAN :
          probe' = [probe EXCEPT
                      !.writes = @ \ {w},
                      !.file = IF ok THEN FileOf(w.data) ELSE @,
                      !.failed = @ \/ ~ok,
                      !.ensure = IF w.by = "ensureFileExists" THEN "done" ELSE @]
    /\ UNCHANGED <<failedFile, productsFile, idleVars>>

NextCategories ==
    \/ ensureFileExistsRead
    \/ ensureFileExistsParse
    \/ scrapeDataBegin
    \/ scrapeDataLoop
    \/ scrapeDataReturn
    \/ writeFileSettles

SpecCategories == InitCategories /\ [][NextCategories]_vars

\* ---------------------------------------------------------------- properties
\* the step is one iteration of a per-target loop, on links[idx]
Iterates == idx' = idx + 1
\* the url the last iteration was about
lastUrl == links[idx - 1].productUrl
InPhase == pc \in {"loop", "abort", "end"}
NoDuplicateUrl(seq) ==
    \A i, j \in DOMAIN seq : seq[i].productUrl = seq[j].productUrl => i = j
ErrorOf(seq, url) == {seq[i].error : i \in {k \in DOMAIN seq : seq[k].productUrl = url}}

\* C1: after a tier has completed, no url is both in the Failed set and in the
\* Canonical Store.
C1_NeverInBothAfterTier ==
    pc = "end" => FailedUrls \cap StoreUrls = {}

C4_RemovedOnlyByOwnRetrySuccess ==
    [][\A u \in URLs :
          (u \in FailedUrls /\ u \notin FailedUrls') =>
              /\ Iterates
              /\ tier >= 1
              /\ links[idx].productUrl = u
              /\ last'.outcome = "complete"]_vars

C4_Witness ==
    /\ pc = "end"
    /\ tier >= 2
    /\ Len(links) = 2
    /\ \E u \in succ : u \notin FailedUrls
    /\ \E v \in FailedUrls : v \in UrlsOf(links) /\ v \notin succ

\* C5: from a missing or an empty file, whatever calls of
\* saveFailedProductLineByLine and removeFailedProduct follow, the Failed set
\* holds at most one entry per productUrl.
C5_OneEntryPerUrl ==
    NoDuplicateUrl(failedFile.data)

C5_Witness ==
    /\ probe.op = "save"
    /\ probe.had
    /\ Len(failedFile.data) = 2

\* C6: an error in the processing of one target never leaves the per-target
\* loop: when the phase has returned every target of its list has been
\* processed, and a target whose navigation or extraction threw is in the
\* Failed set.
C6_FailureIsolated ==
    pc = "end" =>
        /\ idx = Len(links) + 1
        /\ (idx > 1 /\ last.outcome = "threw") => lastUrl \in FailedUrls

\* C7: when a phase has returned, and when scapeToJsonFile has returned, no
\* browser session is open.
C7_SessionsClosed ==
    pc \in {"end", "done"} => open = 0

\* C8: when a retry tier has returned it has attempted every entry that was in
\* the Failed set when it started (the tiers themselves run one after the
\* other, in the order of their numbers).
C8_TierAttemptsEveryEntry ==
    (pc = "end" /\ tier >= 1) => idx = Len(links) + 1

\* C9: a url that failed at tier 0 and at each of the tiers 1 to 4 of a run is
\* in the Failed set when the run ends, and stays there, restarts included,
\* until a retry tier succeeds for it.
C9_ExhaustedStaysFailed ==
    \A u \in URLs : ladder[u] = 4 => u \in FailedUrls

C9_Witness ==
    /\ run = 2
    /\ pc = "loop"
    /\ tier = 0
    /\ idx > 1
    /\ last.outcome = "complete"
    /\ ladder[lastUrl] = 4
    /\ lastUrl \in FailedUrls

\* C10: upserting the same record a second (and a third) time leaves the
\* Canonical Store exactly as the first upsert left it, record for record and
\* in the same order.
C10_UpsertIdempotent ==
    probe.calls >= 2 => productsFile = probe.once

C10_Witness ==
    /\ probe.calls = 2
    /\ probe.before.exists
    /\ ~NoDuplicateUrl(probe.before.data)
    /\ probe.rec.productUrl \notin UrlsOf(probe.before.data)
    /\ productsFile = probe.once

\* C11: an upsert of a record whose productUrl is already in the Canonical Store
\* leaves the store as it was, the stored record of that url and every other
\* record unchanged; an upsert of a record whose productUrl is absent adds this
\* record, after the others, and changes nothing else.
C11_UpsertKeepsExisting ==
    probe.op = "upsert" =>
        IF probe.rec.productUrl \in UrlsOf(probe.before.data)
        THEN productsFile.data = probe.before.data
        ELSE productsFile.data = Append(probe.before.data, probe.rec)

C11_Witness ==
    /\ probe.op = "upsert"
    /\ probe.calls = 1
    /\ \E i \in DOMAIN probe.before.data :
          /\ probe.before.data[i].productUrl = probe.rec.productUrl
          /\ probe.before.data[i] # probe.rec
    /\ Len(probe.before.data) = 2
    /\ productsFile.data = probe.before.data

LinksOf(il) == {il[k].link : k \in DOMAIN il}
NoDuplicateLink(il) == \A j, k \in DOMAIN il : il[j].link = il[k].link => j = k

\* C12: in the list mergeAllProducts writes, a product that occurred under
\* several categories (each time with a list without repeated link url) has
\* the union of the internal links of its occurrences, and no two entries of
\* its list have the same link url.
C12_UnionWithoutDuplicateLink ==
    (probe.op = "mergeAll" /\ probe.at = "written") =>
        \A i \in DOMAIN probe.mergedProducts :
            LET il == probe.mergedProducts[i].internalLinks
                occ == probe.lists[probe.mergedProducts[i].link]
            IN  (/\ \E o, q \in DOMAIN occ : occ[o].cat # occ[q].cat
                 /\ \A o \in DOMAIN occ : NoDuplicateLink(occ[o].internalLinks)) =>
                    /\ LinksOf(il) =
                          UNION {LinksOf(occ[o].internalLinks) : o \in DOMAIN occ}
                    /\ NoDuplicateLink(il)

\* C13: the selectors are tried in the order '#prodByAlpha li a',
\* 'section ul li a', '.cat-container ul li a', '.tech-container ul li a' (for
\* internal links '#actual-document-listings ul li a', then
\* '.dmc-list-dynamic ul li a'); a selector is tried only if every earlier one
\* yielded nothing; the result is the list of the first selector that yielded
\* something, and the empty list when all of them were tried and none did.
C13_FirstYieldingSelector ==
    probe.op = "fallback" =>
        LET order == IF probe.chain = "products"
                     THEN <<"#prodByAlpha li a", "section ul li a",
                            ".cat-container ul li a", ".tech-container ul li a">>
                     ELSE <<"#actual-document-listings ul li a",
                            ".dmc-list-dynamic ul li a">>
            tried == probe.tried
            yielding == {i \in DOMAIN tried : tried[i].found # <<>>}
        IN  /\ Len(tried) <= Len(order)
            /\ \A i \in DOMAIN tried :
                  /\ tried[i].selector = order[i]
                  /\ \A j \in 1..(i - 1) : tried[j].found = <<>>
            /\ probe.at = "done" =>
                  IF yielding = {}
                  THEN Len(tried) = Len(order) /\ probe.result = <<>>
                  ELSE \E i \in yielding :
                          /\ \A j \in yielding : i <= j
                          /\ probe.result = tried[i].found

C13_Witness ==
    /\ probe.op = "fallback"
    /\ probe.chain = "products"
    /\ probe.at = "done"
    /\ Len(probe.tried) = 3
    /\ probe.tried[2].threw
    /\ Len(probe.result) = 2

\* C14: for every page, each of the three shipped schemas and both values of
\* the retry flag, extractProductData returns a record with the productUrl and
\* the linkText it was given; it never throws.
C14_ExtractionNeverThrows ==
    probe.op = "extract" =>
        /\ ~probe.productData.threw
        /\ probe.productData.productUrl = probe.link.productUrl
        /\ probe.productData.linkText = probe.link.productName

\* C15: when the Failed-set file or the product-store file holds corrupt JSON,
\* each operation that loads it (saveFailedProductLineByLine,
\* removeFailedProduct, saveProductData, the initial read of a retry tier)
\* raises no error and does what it does when the file holds an empty list.
C15_CorruptFileReadAsEmpty ==
    /\ (probe.op \in {"saveFailed", "removeFailed", "saveProduct"}
            /\ probe.before.corrupt) =>
          /\ ~probe.raised
          /\ IF probe.op = "saveProduct" THEN productsFile = probe.asEmpty
                                         ELSE failedFile = probe.asEmpty
    /\ (failedFile.corrupt /\ tier >= 1) =>
          pc = "end" /\ open = 0

\* the rows with a numeric similarity, and the place of such a row among them
\* when they are ranked by decreasing similarity (rows of equal similarity in
\* the order of the repository)
NumericRows == {r \in DOMAIN probe.scores : ~probe.scores[r].nan}
RankOf(r) ==
    1 + Cardinality({q \in NumericRows :
                        \/ probe.scores[q].v > probe.scores[r].v
                        \/ probe.scores[q].v = probe.scores[r].v /\ q < r})
IsNumericRow(r) == r \in NumericRows
\* x > y on JavaScript numbers: false when either is NaN
GreaterThan(x, y) == ~x.nan /\ ~y.nan /\ x.v > y.v

\* C16: a row whose similarity is NaN is never selected while a row with a
\* numeric similarity is left out, and the selected rows with a numeric
\* similarity are those, in that order, that are selected when the NaN rows
\* are not in the repository.
C16_NaNIsNoMatch ==
    probe.op = "getResponse" =>
        LET top == probe.topResults
            numericTop == SelectSeq(top, IsNumericRow)
        IN  /\ (\E i \in DOMAIN top : probe.scores[top[i]].nan) =>
                   \A r \in NumericRows : \E i \in DOMAIN top : top[i] = r
            /\ Len(numericTop) =
                   (IF Cardinality(NumericRows) < TopK THEN Cardinality(NumericRows)
                                                      ELSE TopK)
            /\ \A i \in DOMAIN numericTop : RankOf(numericTop[i]) = i

\* C17: the context is made of at most five rows, each at most once, all of
\* them when there are fewer than five, in an order in which no row has a
\* greater similarity than a row before it, and no row left out has a greater
\* similarity than a row included.
C17_TopFiveBySimilarity ==
    probe.op = "getResponse" =>
        LET top == probe.topResults
            sim(i) == probe.scores[top[i]]
        IN  /\ Len(top) = (IF Len(probe.scores) < 5 THEN Len(probe.scores) ELSE 5)
            /\ \A i, j \in DOMAIN top : top[i] = top[j] => i = j
            /\ \A i, j \in DOMAIN top : i < j => ~GreaterThan(sim(j), sim(i))
            /\ \A r \in DOMAIN probe.scores :
                  (\A i \in DOMAIN top : top[i] # r) =>
                      \A i \in DOMAIN top : ~GreaterThan(probe.scores[r], sim(i))

\* the tokens of a text, said without split: the text is lower-cased and
\* loses every character other than a-z, 0-9 and whitespace; a token is a
\* maximal run of characters between whitespace
CleanText(text) ==
    LET lower == [i \in DOMAIN text |->
                    IF text[i] = "B" THEN "b" ELSE IF text[i] = "R" THEN "r" ELSE text[i]]
        kept(c) == c \in LowerCaseLetters \cup Digits \cup Whitespace
    IN  SelectSeq(lower, kept)
TokenStarts(c) ==
    {i \in DOMAIN c : c[i] \notin Whitespace /\ (i = 1 \/ c[i - 1] \in Whitespace)}
TokenAt(c, i) ==
    LET ends == {j \in i..Len(c) : \A k \in i..j : c[k] \notin Whitespace}
    IN  SubSeq(c, i, CHOOSE j \in ends : \A k \in ends : k <= j)
Occurrences(word, text) ==
    LET c == CleanText(text)
    IN  Cardinality({i \in TokenStarts(c) : TokenAt(c, i) = word})

\* C18: vectorize(text, vocabulary) has one component per vocabulary term, and
\* the i-th is the number of tokens of the text equal to the i-th term (0
\* when there is none); "Router router switch" with ["router", "switch"]
\* gives [2, 1].
C18_VectorizeCounts ==
    probe.op = "vectorize" =>
        /\ Len(probe.vector) = Len(probe.vocabulary)
        /\ \A i \in DOMAIN probe.vocabulary :
              probe.vector[i] =
                  [type |-> "number", n |-> Occurrences(probe.vocabulary[i], probe.text)]

\* where a word first occurs in a list of texts: the text, then the place
FirstOccurrence(word, texts) ==
    LET places == {<<t, i>> \in (DOMAIN texts) \X (1..(MaxText + 20)) :
                      /\ i \in TokenStarts(CleanText(texts[t]))
                      /\ TokenAt(CleanText(texts[t]), i) = word}
    IN  CHOOSE p \in places :
            \A q \in places : p[1] < q[1] \/ (p[1] = q[1] /\ p[2] <= q[2])
Before(p, q) == p[1] < q[1] \/ (p[1] = q[1] /\ p[2] < q[2])

\* C19: buildVocabulary returns every token of the texts exactly once, in the
\* order of the first occurrences; a token is not empty and is made of the
\* characters a-z and 0-9 only.
C19_VocabularyFirstOccurrence ==
    probe.op = "buildVocabulary" =>
        LET v == probe.vocabulary
            texts == probe.texts
        IN  /\ \A m, n \in DOMAIN v : v[m] = v[n] => m = n
            /\ \A m \in DOMAIN v :
                  /\ v[m] # <<>>
                  /\ \A k \in DOMAIN v[m] : v[m][k] \in LowerCaseLetters \cup Digits
                  /\ \E t \in DOMAIN texts : Occurrences(v[m], texts[t]) > 0
            /\ \A t \in DOMAIN texts :
                  LET c == CleanText(texts[t])
                  IN  \A i \in TokenStarts(c) : \E m \in DOMAIN v : v[m] = TokenAt(c, i)
            /\ \A m, n \in DOMAIN v :
                  m < n => Before(FirstOccurrence(v[m], texts), FirstOccurrence(v[n], texts))

C19_Witness ==
    /\ probe.op = "buildVocabulary"
    /\ probe.texts = << <<"B", "-", "a">>, <<"a", " ", "B">> >>
    /\ probe.vocabulary = << <<"b", "a">>, <<"a">>, <<"b">> >>

NonZero(v) == \E i \in DOMAIN v : v[i] # 0
\* x === y on two results: NaN equals nothing; two quotients num / sqrt(den2)
\* are equal when they have the same sign and the same square
SameNumber(x, y) ==
    /\ ~x.nan
    /\ ~y.nan
    /\ (x.num > 0) = (y.num > 0)
    /\ (x.num < 0) = (y.num < 0)
    /\ x.num * x.num * y.den2 = y.num * y.num * x.den2

\* C20 as stated: for any two non-zero vectors a and b,
\* cosineSimilarity(a, b) equals cosineSimilarity(b, a).
C20_CosineSymmetric ==
    (probe.op = "cosineSimilarity" /\ NonZero(probe.a) /\ NonZero(probe.b)) =>
        SameNumber(probe.ab, probe.ba)

\* C20 amended: the same, for two non-zero vectors of the same length.
C20_CosineSymmetricSameLength ==
    (/\ probe.op = "cosineSimilarity"
     /\ NonZero(probe.a)
     /\ NonZero(probe.b)
     /\ Len(probe.a) = Len(probe.b)) =>
        SameNumber(probe.ab, probe.ba)

C20_Witness ==
    /\ probe.op = "cosineSimilarity"
    /\ Len(probe.a) = 2
    /\ Len(probe.b) = 2
    /\ SumOfSquares(probe.a) # SumOfSquares(probe.b)
    /\ probe.ab.num < 0
    /\ SameNumber(probe.ab, probe.ba)

\* C21: for two non-zero vectors of the same length the similarity is a number
\* between -1 and 1 (dot(a, b)^2 <= |a|^2 * |b|^2); cosineSimilarity(a, a) is
\* 1 for a non-zero a; the result is NaN when one of the vectors is all-zero.
C21_CosineBounds ==
    probe.op = "cosineSimilarity" =>
        /\ (NonZero(probe.a) /\ NonZero(probe.b) /\ Len(probe.a) = Len(probe.b)) =>
              /\ ~probe.ab.nan
              /\ probe.ab.num * probe.ab.num <= probe.ab.den2
        /\ (NonZero(probe.a) /\ probe.a = probe.b) =>
              /\ ~probe.ab.nan
              /\ probe.ab.num > 0
              /\ probe.ab.num * probe.ab.num = probe.ab.den2
        /\ (~NonZero(probe.a) \/ ~NonZero(probe.b)) => probe.ab.nan

C21_Witness ==
    /\ probe.op = "cosineSimilarity"
    /\ probe.a = <<1, 2>>
    /\ probe.b = <<-1, 1>>
    /\ probe.ab = [nan |-> FALSE, num |-> 1, den2 |-> 10]

\* positions of the url at which the text stands
PositionsOf(url, text) ==
    {i \in 1..Len(url) : startsWith(SubSeq(url, i, Len(url)), text)}

LastPositionOf(url, text) ==
    CHOOSE i \in PositionsOf(url, text) : \A j \in PositionsOf(url, text) : j <= i

Slashes == <<"/", "/">>

\* C22: in product discovery a root-relative href "/p" becomes base + "/p"; an
\* href that starts with the base and holds the base more than once becomes
\* its text from the last occurrence of the base on, which holds the base
\* once; an href that is not protocol-relative and starts with none of the
\* base, "/" and "http" gives null and the anchor is left out of the list.
C22_SanitizeUrlRules ==
    probe.op = "product" =>
        /\ (startsWith(probe.href, <<"/">>) /\ ~startsWith(probe.href, Slashes)) =>
              probe.sanitizedLink = Sanitized(baseURL \o probe.href)
        /\ (startsWith(probe.href, baseURL)
                /\ Cardinality(PositionsOf(probe.href, baseURL)) > 1) =>
              /\ probe.sanitizedLink =
                    Sanitized(SubSeq(probe.href, LastPositionOf(probe.href, baseURL),
                                     Len(probe.href)))
              /\ Cardinality(PositionsOf(probe.sanitizedLink.url, baseURL)) = 1
        /\ (/\ ~startsWith(probe.href, Slashes)
            /\ ~startsWith(probe.href, baseURL)
            /\ ~startsWith(probe.href, <<"/">>)
            /\ ~startsWith(probe.href, <<"h", "t", "t", "p">>)) =>
              /\ probe.sanitizedLink = Null
              /\ probe.list = <<>>

C22_Witness ==
    /\ probe.op = "product"
    /\ probe.href = baseURL \o baseURL \o RootRelative
    /\ probe.text = "n1"
    /\ probe.list = <<[name |-> "n1", link |-> baseURL \o RootRelative]>>

\* C23: in product discovery every href that starts with "//", whatever the
\* host, becomes "https:" followed by the href, the root-relative rule not
\* being applied to it.
C23_ProtocolRelativeAnyHost ==
    (probe.op = "product" /\ startsWith(probe.href, Slashes)) =>
        probe.sanitizedLink = Sanitized(<<"h", "t", "t", "p", "s", ":">> \o probe.href)

\* C24: the sanitizer of product discovery and the sanitizer of internal-link
\* discovery give the same result for the same href and base.
C24_SanitizersAgree ==
    /\ probe.op = "product" =>
          probe.sanitizedLink = sanitizeInternalUrl(probe.href, baseURL)
    /\ probe.op = "internalLink" =>
          probe.sanitizedLink = sanitizeUrl(probe.href, baseURL)

\* the words of a text, and of a list of texts in order
WordsOf(text) == filterBoolean(split(text))
RECURSIVE WordsOfAll(_)
WordsOfAll(texts) ==
    IF texts = <<>> THEN <<>> ELSE WordsOf(Head(texts)) \o WordsOfAll(Tail(texts))

\* a text whose only whitespace is one space between two words
SingleSpaced(text) ==
    \A i \in DOMAIN text :
        text[i] \in Whitespace =>
            /\ text[i] = " "
            /\ i > 1 /\ i < Len(text)
            /\ text[i - 1] \notin Whitespace

NonEmptyMatches(texts) == SelectSeq(texts, LAMBDA t : trim(t) # <<>>)

ScalarValue == probe.data[probe.key]

\* C25 as stated: the value of a scalar field matched by one element is that
\* element's trimmed text.
C25_OneMatchIsTrimmedText ==
    (probe.op = "scalar" /\ Len(probe.texts) = 1) =>
        ScalarValue = trim(probe.texts[1])

\* C25: the value of a scalar field is a string; it holds the words of the
\* non-empty matches in document order, one space between two words and no
\* other whitespace (one match: its trimmed text with every whitespace run
\* collapsed to one space); it is the empty string when no match is non-empty,
\* and the required-field test fails exactly when the title or the pre-title
\* selector has no non-empty match.
C25_ScalarFieldCollapsed ==
    probe.op = "scalar" =>
        /\ ScalarValue \in Seq({"A", "B", "R", "o", "u", "t", "e", "r", "X", " "})
        /\ SingleSpaced(ScalarValue)
        /\ WordsOf(ScalarValue) = WordsOfAll(probe.texts)
        /\ NonEmptyMatches(probe.texts) = <<>> <=> ScalarValue = <<>>
        /\ ~probe.complete <=>
              \/ NonEmptyMatches(probe.texts) = <<>>
              \/ NonEmptyMatches(probe.other) = <<>>

C25_Witness ==
    /\ probe.op = "scalar"
    /\ probe.key = "title"
    /\ probe.texts = <<RouterTabX, <<" ", "A", " ">> >>
    /\ probe.data.title = <<"R", "o", "u", "t", "e", "r", " ", "X", " ", "A">>
    /\ probe.complete

ResolvingTriggers(triggers) == SelectSeq(triggers, Resolves)

\* C26: at tier 0 the record has a list dataModals with one {title, content}
\* per button whose panel resolves, in order, the content one joined string,
\* and no modal; at a retry tier it has one modal {title, content list} when
\* the container is on the page and neither field when it is not.
C26_DataModalByTier ==
    probe.op = "dataModal" =>
        /\ ~probe.productData.threw
        /\ ~probe.call.isRetry =>
              /\ probe.productData.dataModal.key = "dataModals"
              /\ Len(probe.productData.dataModal.value)
                    = Len(ResolvingTriggers(probe.page.triggers))
              /\ \A i \in DOMAIN probe.productData.dataModal.value :
                    /\ probe.productData.dataModal.value[i].title
                          = titleOf(ResolvingTriggers(probe.page.triggers)[i])
                    /\ probe.productData.dataModal.value[i].content
                          = joinStrings(probe.page.items)
        /\ probe.call.isRetry =>
              /\ probe.page.present =>
                    /\ probe.productData.dataModal.key = "modal"
                    /\ Len(probe.productData.dataModal.value.content)
                          = Len(probe.page.items)
              /\ ~probe.page.present => probe.productData.dataModal.key = "none"

\* C27 as stated: the navigation of every retry tier (1 to 4) is given a
\* timeout.
C27_RetryNavigationHasTimeout ==
    (probe.op = "goto" /\ probe.tier \in 1..4) => probe.timeout > NoTimeout

\* C27: of all tiers only tier 3 gives its navigation a timeout; a navigation
\* of tier 3 that is never answered is left, and the pass of tier 3 ends; in
\* tiers 0, 1, 2 and 4 nothing but the page ends a navigation.
C27_OnlyTierThreeBounded ==
    /\ [](probe.op = "goto" => (probe.timeout > NoTimeout <=> probe.tier = 3))
    /\ [][(probe.op = "goto" /\ probe.tier # 3 /\ probe'.op # "goto") =>
             probe'.turns[Len(probe'.turns)].by = "page"]_vars
    /\ ((probe.op = "goto" /\ probe.tier = 3) ~> probe.op # "goto")
    /\ ((probe.op = "loop" /\ probe.tier = 3) ~> probe.op = "done")

C27_Witness ==
    /\ probe.op = "done"
    /\ probe.tier = 3
    /\ Len(probe.turns) = 2
    /\ probe.turns[1] = [by |-> "timeout", outcome |-> "failed"]

\* C28 as stated: every trigger endpoint answers while the work it started is
\* still running, and two requests to the same endpoint get the same response
\* whether the work failed or not.
C28_AcknowledgeWithoutWaiting ==
    /\ probe.op = "working" => probe.response # "none"
    /\ probe.op = "idle" =>
          \A i, j \in DOMAIN probe.log :
              probe.log[i].endpoint = probe.log[j].endpoint =>
                  probe.log[i].response = probe.log[j].response

\* C28: scrape-new-data alone answers without waiting, always with its
\* acknowledgement; the four other endpoints answer once the service call has
\* settled: scrape-data-to-database with the boolean the service returns
\* (false when the work failed), the three others with their fixed body or,
\* when the call is rejected, with an error response.
C28_OnlyScrapeNewDataDoesNotWait ==
    /\ probe.op = "working" =>
          (probe.response # "none" <=> probe.endpoint = "scrape-new-data")
    /\ probe.op = "idle" =>
          \A i \in DOMAIN probe.log :
              LET x == probe.log[i]
              IN  /\ x.waited <=> x.endpoint # "scrape-new-data"
                  /\ x.endpoint = "scrape-new-data" => x.response = "scrapping started"
                  /\ x.endpoint = "scrape-data-to-database" =>
                        x.response = (IF x.result.failed THEN "false" ELSE "true")
                  /\ (x.waited /\ x.result.settled = "rejected") =>
                        x.response = InternalServerError
                  /\ (x.endpoint = "scrape-data-to-json"
                          /\ x.result.settled = "resolved") =>
                        x.response = "scrapping started"

C28_Witness ==
    /\ probe.op = "idle"
    /\ Len(probe.log) = 2
    /\ probe.log[1] = [endpoint |-> "scrape-data-to-database",
                       result |-> Resolved("false", TRUE),
                       response |-> "false", waited |-> TRUE]
    /\ probe.log[2].endpoint = "scrape-new-data"
    /\ ~probe.log[2].waited

\* C29: the repository holds at most one entry per url whatever the runs of
\* scapeToDataBase and the store they read; a run creates an entry only for a
\* record of the store whose url has no entry yet, and no step changes or
\* creates again an entry that exists.
C29_OneEntryPerUrl ==
    /\ [](probe.op = "database" =>
            \A i, j \in DOMAIN probe.rows :
                probe.rows[i].url = probe.rows[j].url => i = j)
    /\ [][probe.op = "database" =>
             /\ Len(probe'.rows) \in {Len(probe.rows), Len(probe.rows) + 1}
             /\ SubSeq(probe'.rows, 1, Len(probe.rows)) = probe.rows
             /\ Len(probe'.rows) > Len(probe.rows) =>
                   /\ probe'.rows[Len(probe'.rows)].url \notin RowUrls(probe.rows)
                   /\ \E k \in DOMAIN probe.store :
                         probe.store[k] = probe'.rows[Len(probe'.rows)].url]_vars

C29_Witness ==
    /\ probe.op = "database"
    /\ probe.store = <<"u1", "u2", "u2">>
    /\ probe.rows = <<Row(1, "u1", "old"), Row(2, "u2", "new")>>
    /\ probe.runs[1].returned = "true"
    /\ probe.runs[2].returned = "false"

\* how far a run of scapeToJsonFile has come: the tier, and within the tier
\* the position of its loop
StepsOfTier == MaxLinks + 4
Progress ==
    IF pc = "idle" THEN 0
    ELSE IF pc = "done" THEN 5 * StepsOfTier
    ELSE tier * StepsOfTier
            + (IF pc = "loop" THEN idx
               ELSE IF pc = "abort" THEN MaxLinks + 2 ELSE MaxLinks + 3)

\* every step of a run takes it further, and a run can only come so far
Terminates ==
    /\ [](Progress <= 5 * StepsOfTier)
    /\ [][pc # "done" => Progress' > Progress]_vars

\* in a retry tier the list read at its start is gone through one entry after
\* the other, and it names no url twice
OnceInFileOrder ==
    /\ [](tier >= 1 /\ InPhase => NoDuplicateUrl(links))
    /\ [][(tier >= 1 /\ pc = "loop" /\ tier' = tier) =>
             /\ links' = links
             /\ idx' \in {idx, idx + 1}]_vars

\* C30: scapeToJsonFile terminates when each of its steps returns; in a retry
\* tier every entry of the Failed set read at the start of the tier is
\* attempted exactly once, in the order of the file, a url that fails during
\* the tier not being attempted again in it.
C30_TerminatesAttemptingEachOnce ==
    /\ Terminates
    /\ OnceInFileOrder
    /\ [][(tier >= 1 /\ pc # "end" /\ pc' = "end" /\ tier' = tier) =>
             idx = Len(links) + 1]_vars

\* the url of the target of the iteration
targetUrl == probe.link.productUrl

\* C31: no target is silently dropped. Once the iteration on a target has
\* finished and none of its file operations failed, the target's url is in the
\* Failed set or in the Canonical Store; in a retry tier the url is in one of the
\* two at every point of the iteration, and the step that takes it out of the
\* Failed set finds it in the store already.
C31_NeverInNeither ==
    /\ [](probe.at = "done" /\ ~probe.io => targetUrl \in FailedUrls \cup StoreUrls)
    /\ [](removesOnSuccess(probe.tier) => targetUrl \in FailedUrls \cup StoreUrls)
    /\ [][(targetUrl \in FailedUrls /\ targetUrl \notin UrlsOf(failedFile'.data))
              => (removesOnSuccess(probe.tier) /\ targetUrl \in StoreUrls)]_vars

\* a retry tier between the write of the store and the removal: the url is in
\* both files
C31_Witness ==
    /\ probe.at = "remove"
    /\ probe.link.productUrl \in FailedUrls \cap StoreUrls

\* C32: when a url that is already in the Failed set fails again, in any tier
\* and with any error reason, saveFailedProductLineByLine leaves the Failed-set
\* file as it is: no write, the entry of the first failure (productName, error)
\* and the order of the entries stay.
C32_FailingAgainWritesNothing ==
    [][(/\ Iterates
        /\ links[idx].productUrl \in FailedUrls
        /\ last'.outcome \in {"threw", "incomplete"})
           => failedFile' = failedFile]_vars

\* a retry tier in which a target recorded for its missing fields has just
\* thrown: its entry still tells the first reason
C32_Witness ==
    /\ InPhase
    /\ tier >= 1
    /\ idx > 1
    /\ last.outcome = "threw"
    /\ ~last.io
    /\ ErrorOf(failedFile.data, lastUrl) = {MissingRequiredFields}

\* the Failed-set file is missing, or holds an empty list
NothingToRetry == ~failedFile.exists \/ (Readable(failedFile) /\ failedFile.data = <<>>)

\* C33: a retry tier that starts on a missing Failed-set file, or on an empty
\* list, launches no browser, navigates to nothing, leaves the Failed set and
\* the Canonical Store as they are and returns without raising.
C33_NothingToRetryDoesNothing ==
    /\ [][(pc = "end" /\ tier' = tier + 1 /\ NothingToRetry)
             => /\ open' = open
                /\ pc' = "end"
                /\ links' = <<>>
                /\ failedFile' = failedFile
                /\ productsFile' = productsFile]_vars
    /\ [](tier >= 1 /\ links = <<>> => idx = 1 /\ pc \in {"end", "done"})

\* the last tier has started on a list emptied by the tiers before it
C33_Witness ==
    /\ tier = 4
    /\ pc = "end"
    /\ links = <<>>
    /\ Readable(failedFile)
    /\ failedFile.data = <<>>
    /\ StoreUrls # {}

\* C34: scapeToDataBase returns true only if every record of the product store
\* was already in the repository or was saved by this run. It returns false,
\* without raising, when the store file cannot be read or parsed and when the
\* save of a record fails; then the rows saved before the failure stay in the
\* repository and the records after it are not processed.
C34_TrueOnlyIfAllPresent ==
    /\ [](\A r \in DatabaseRuns :
            LET mine == probe.runs[r]
            IN  /\ mine.returned = "true" =>
                      /\ Readable(productsFile)
                      /\ mine.found \cup mine.saved = DOMAIN probe.store
                      /\ \A k \in DOMAIN probe.store : probe.store[k] \in RowUrls(probe.rows)
                /\ (~Readable(productsFile) /\ mine.pc # "idle") =>
                      /\ mine.returned = "false"
                      /\ mine.found \cup mine.saved = {}
                /\ mine.returned = "false" =>
                      /\ mine.pc = "done"
                      /\ mine.found \cup mine.saved \subseteq 1..(mine.i - 1)
                      /\ \A k \in mine.saved : probe.store[k] \in RowUrls(probe.rows))
    /\ [][\A r \in DatabaseRuns :
            /\ (probe.runs[r].returned = "none" /\ probe'.runs[r].returned = "false")
                  => probe'.rows = probe.rows
            /\ probe.runs[r].pc = "done" => probe'.runs[r] = probe.runs[r]]_vars

\* a run has saved the first record and failed on the second: it has returned
\* false, the first row is in the repository, the third record was not looked at
C34_Witness ==
    /\ Len(probe.store) = 3
    /\ probe.runs[1].returned = "false"
    /\ probe.runs[1].saved = {1}
    /\ probe.runs[1].i = 2
    /\ probe.store[1] \in RowUrls(probe.rows)
    /\ probe.runs[2].pc = "idle"

\* the distinct tokens of a text
DistinctTokens(text) == {tokenize(text)[i] : i \in DOMAIN tokenize(text)}

\* C35: cosineSimilarity(a, b) is NaN whenever b has fewer components than a,
\* whatever the components, so that a stored entry, whose vector has one
\* component per distinct token of its own text, gets the similarity NaN when
\* that vector is shorter than the query vector; when b is longer than a its
\* extra components enter the norm of b and not the dot product.
C35_DimensionMismatch ==
    probe.op = "scored" =>
        LET a == probe.a
            b == probe.b
            head == SubSeq(b, 1, Len(a))
            extra == SubSeq(b, Len(a) + 1, Len(b))
        IN  /\ Len(b) < Len(a) => probe.dot = NaN /\ probe.similarity.nan
            /\ probe.from = "text" => Len(b) = Cardinality(DistinctTokens(probe.text))
            /\ Len(b) >= Len(a) =>
                  /\ probe.dot = Number(SumOfProducts(a, head))
                  /\ probe.similarity.nan <=> SumOfSquares(a) * SumOfSquares(b) = 0
                  /\ ~probe.similarity.nan =>
                        /\ probe.similarity.num = probe.dot.n
                        /\ probe.similarity.den2 =
                              SumOfSquares(a) * (SumOfSquares(head) + SumOfSquares(extra))

\* a record with one distinct token scored against a query vector of two
\* components
C35_Witness ==
    /\ probe.op = "scored"
    /\ probe.from = "text"
    /\ Len(probe.b) = 1
    /\ Len(probe.a) = 2
    /\ probe.dot = NaN
    /\ probe.similarity.nan

\* the occurrences of product p that came with internal links, in file order
WithLinks(p) ==
    SelectSeq(probe.lists[p], LAMBDA o : Len(o.internalLinks) > 0)

\* C36: when every product has an internalLinks list, the output of
\* mergeAllProducts has at most one entry per product link, every entry has at
\* least one internal link and a product none of whose occurrences has one is
\* left out, a category without products contributes nothing, and an entry
\* carries the categoryName and categoryLink of the first category in file order
\* in which the product occurred with internal links.
C36_OneEntryFromFirstCategory ==
    /\ [](LET out == probe.mergedProducts
          IN  /\ \A i, j \in DOMAIN out : out[i].link = out[j].link => i = j
              /\ \A i \in DOMAIN out : Len(out[i].internalLinks) > 0
              /\ \A p \in ProductLinks : HasKey(out, p) <=> WithLinks(p) # <<>>
              /\ \A i \in DOMAIN out :
                    /\ out[i].categoryName = WithLinks(out[i].link)[1].category.categoryName
                    /\ out[i].categoryLink = WithLinks(out[i].link)[1].category.link)
    /\ [][probe'.cats # probe.cats => probe'.mergedProducts = probe.mergedProducts]_vars

\* the output is written: a product met first without internal links, in the
\* first category, and then with some in the second, is listed under the
\* second; another has no internal links anywhere and is left out
C36_Witness ==
    /\ probe.at = "written"
    /\ \E p, q \in ProductLinks :
          /\ p # q
          /\ Len(probe.lists[p]) = 2
          /\ probe.lists[p][1].internalLinks = <<>>
          /\ probe.lists[p][1].category # probe.lists[p][2].category
          /\ HasKey(probe.mergedProducts, p)
          /\ probe.lists[q] # <<>>
          /\ ~HasKey(probe.mergedProducts, q)

\* C37: the in-memory category list never holds two categories with the same
\* link. addCategoryToFile of a category whose link is in the list changes
\* neither the list nor the file (no write is started), and no iteration of
\* scrapeData changes an entry the list holds: a repeated discovery run does not
\* bring new products to a category already in the list.
C37_OneCategoryPerLink ==
    /\ [](\A i, j \in DOMAIN probe.scrapedData :
            probe.scrapedData[i].link = probe.scrapedData[j].link => i = j)
    /\ [][(probe'.left < probe.left /\ probe'.call.isDuplicate) =>
             /\ probe'.scrapedData = probe.scrapedData
             /\ probe'.writes = probe.writes
             /\ probe'.issued = probe.issued
             /\ probe'.file = probe.file]_vars
    /\ [][probe'.left < probe.left =>
             SubSeq(probe'.scrapedData, 1, Len(probe.scrapedData)) = probe.scrapedData]_vars

\* the second run has found, with other products, a category the list holds:
\* the entry still has the products of the first time
C37_Witness ==
    /\ probe.runs = 2
    /\ probe.call.isDuplicate
    /\ probe.call.category.products = "second"
    /\ probe.call.before = probe.scrapedData
    /\ \E i \in DOMAIN probe.scrapedData :
          /\ probe.scrapedData[i].link = probe.call.category.link
          /\ probe.scrapedData[i].products = "first"

\* C38: once scrapeData has returned and no write is in flight (the writes
\* started by addCategoryToFile and the steps of the ensureFileExists of the
\* constructor having completed in whatever order, none with an error), the
\* category file holds the in-memory category list.
C38_FileMirrorsList ==
    (/\ probe.at = "returned"
     /\ probe.writes = {}
     /\ probe.ensure = "done"
     /\ ~probe.failed)
        => (Readable(probe.file) /\ probe.file.data = probe.scrapedData)

====
